---- MODULE Spec2Model ----
(***************************************************************************)
(* A model of the haystack namespace / def reflection engine               *)
(* (src/src/core/HNamespace.ts: classes HNamespace and Reflection).        *)
(*                                                                         *)
(* Representation.                                                         *)
(*  - A name (a JavaScript string such as "ac-elec") is a sequence of      *)
(*    tokens in which the separators "-" and ":" are tokens of their own:  *)
(*    "ac-elec" is <<"ac", "-", "elec">>, "site" is <<"site">>, the empty  *)
(*    string is << >>.  split('-'), join('-') and includes('-') are        *)
(*    computed on that sequence.                                           *)
(*  - A haystack value is a record [kind, val]; val is a sequence of names *)
(*    (the entries of a list, the one name of a symbol or ref, empty       *)
(*    otherwise).  JavaScript's undefined is the value Undefined.          *)
(*  - An HDict is a sequence of entries [k, v] with distinct keys, in key  *)
(*    insertion order.  A def is an HDict with a `def` symbol.             *)
(*  - A JavaScript Set<HDict> or HDict[] is a sequence of dicts in         *)
(*    insertion order.  Every HDict the namespace hands out is an element  *)
(*    of its defs table, which holds one dict per name, so object identity *)
(*    of defs coincides with equality of the dicts.                        *)
(***************************************************************************)
EXTENDS Integers, Sequences, FiniteSets, TLC

VARIABLES
    grid,   \* HNamespace.$grid: the rows the namespace was constructed over
    call,   \* the last operation invoked on the namespace, with its arguments
    ret,    \* what that operation returned (or the error it threw)
    frames,             \* the activations of hasRelationship, innermost last
    queried,            \* the Set hasRelationship threads through its recursion
    memo,               \* the values the memoized members have cached, by key
    defaultNamespace,   \* the module variable defaultNamespace (empty: undefined)
    heap,               \* the HNamespace instances constructed so far: their grids
    log                 \* the history of reads and writes, for stating properties

vars == <<grid, call, ret, frames, queried, memo, defaultNamespace, heap, log>>

\* What the queries on one namespace leave alone.
aux == <<frames, queried, memo, defaultNamespace, heap, log>>

InitAux ==
    /\ frames = << >>
    /\ queried = {}
    /\ memo = << >>
    /\ defaultNamespace = {}
    /\ heap = << >>
    /\ log = << >>

----------------------------------------------------------------------------
(* Sequence helpers standing for Array / Set primitives.                   *)

Range(s) == {s[i] : i \in DOMAIN s}

\* Array.prototype.includes
Includes(s, x) == \E i \in DOMAIN s : s[i] = x

\* Set.prototype.add on an insertion ordered set
SetAdd(s, x) == IF Includes(s, x) THEN s ELSE Append(s, x)

NoDuplicates(s) == \A i, j \in DOMAIN s : s[i] = s[j] => i = j

----------------------------------------------------------------------------
(* Values and dicts.                                                       *)

Undefined == [kind |-> "undefined", val |-> << >>]
Marker == [kind |-> "marker", val |-> << >>]
StrVal == [kind |-> "str", val |-> << >>]
NumVal == [kind |-> "number", val |-> << >>]
\* A null tag value: the key is present, the value is no HVal.
Null == [kind |-> "null", val |-> << >>]
Sym(name) == [kind |-> "symbol", val |-> <<name>>]
List(names) == [kind |-> "list", val |-> names]

\* HDict.get
Get(dict, key) ==
    IF \E i \in DOMAIN dict : dict[i].k = key
    THEN dict[CHOOSE i \in DOMAIN dict : dict[i].k = key].v
    ELSE Undefined

\* HDict.has
Has(dict, key) == \E i \in DOMAIN dict : dict[i].k = key

\* HDict.keys
Keys(dict) == [i \in DOMAIN dict |-> dict[i].k]

\* HDict.defName: String(get('def')) or the empty string
defName(dict) ==
    LET val == Get(dict, <<"def">>)
    IN IF val.kind = "symbol" /\ Len(val.val) = 1 THEN val.val[1] ELSE << >>

\* value.isKind(kind) / valueIsKind(value, kind): false for undefined
IsKind(value, kind) == value.kind = kind

\* Stands for undefined where the code has an HDict | undefined: no def of the
\* table is empty, since each carries its `def` tag.
NoDef == << >>

----------------------------------------------------------------------------
(* The def table and basic lookup.                                         *)

\* The last row of the grid that carries the name: HNamespace.defs assigns
\* defs[name] = dict row by row, so a later row replaces an earlier one.
byName(name) ==
    LET rows == {i \in DOMAIN grid : defName(grid[i]) = name /\ name # << >>}
    IN IF rows = {} THEN NoDef
       ELSE grid[CHOOSE i \in rows : \A j \in rows : j <= i]

\* Object.keys(defs): the names in the order of their first row
RECURSIVE DefNamesFrom(_, _)
DefNamesFrom(i, acc) ==
    IF i > Len(grid) THEN acc
    ELSE DefNamesFrom(i + 1,
            IF defName(grid[i]) # << >> THEN SetAdd(acc, defName(grid[i]))
            ELSE acc)

defs == DefNamesFrom(1, << >>)

hasName(name) == byName(name) # NoDef

has(name) == hasName(name)

\* reduceNameToDef, folded over a list of names
RECURSIVE ReduceNamesToDefs(_, _, _)
ReduceNamesToDefs(names, i, dicts) ==
    IF i > Len(names) THEN dicts
    ELSE ReduceNamesToDefs(names, i + 1,
            IF names[i] # << >> /\ byName(names[i]) # NoDef
            THEN Append(dicts, byName(names[i]))
            ELSE dicts)

reduceNameToDef(names) == ReduceNamesToDefs(names, 1, << >>)

----------------------------------------------------------------------------
(* Supertypes and inheritance.                                             *)

doSuperTypesOf(name) ==
    LET is == Get(byName(name), <<"is">>)
    IN IF is.kind = "list" THEN reduceNameToDef(is.val) ELSE << >>

superTypesOf(name) == IF has(name) THEN doSuperTypesOf(name) ELSE << >>

\* findSuperTypes(name, superTypes): the depth-first walk; the Set it fills
\* is threaded through and returned.
RECURSIVE findSuperTypes(_, _)
RECURSIVE FindSuperTypesLoop(_, _, _)
FindSuperTypesLoop(supers, i, superTypes) ==
    IF i > Len(supers) THEN superTypes
    ELSE LET added == findSuperTypes(defName(supers[i]),
                                     SetAdd(superTypes, supers[i]))
         IN FindSuperTypesLoop(supers, i + 1, added)

\* A walk that adds the direct supertypes only.
findSuperTypesShallow(name, superTypes) ==
    LET supers == superTypesOf(name)
        Add[i \in 0..Len(supers)] ==
            IF i = 0 THEN superTypes ELSE SetAdd(Add[i - 1], supers[i])
    IN Add[Len(supers)]

findSuperTypes(name, superTypes) ==
    LET supers == superTypesOf(name)
    IN FindSuperTypesLoop(supers, 1, superTypes)

allSuperTypesOf(name) == findSuperTypes(name, << >>)

doInheritance(name) ==
    LET def == byName(name)
    IN IF def # NoDef THEN findSuperTypes(name, <<def>>) ELSE << >>

inheritance(name) == IF has(name) THEN doInheritance(name) ELSE << >>

\* A fits that looks at the direct supertypes only.
fitsDirect(name, base) ==
    LET baseDef == byName(base)
    IN baseDef # NoDef /\ has(name)
       /\ Includes(<<byName(name)>> \o superTypesOf(name), baseDef)

fits(name, base) ==
    LET baseDef == byName(base)
    IN baseDef # NoDef /\ Includes(inheritance(name), baseDef)

fitsMarker(name) == fits(name, <<"marker">>)

fitsVal(name) == fits(name, <<"val">>)

fitsChoice(name) == fits(name, <<"choice">>)

fitsEntity(name) == fits(name, <<"entity">>)

----------------------------------------------------------------------------
(* Conjuncts.                                                              *)

\* HNamespace.isConjunct: String(name).includes('-')
isConjunct(name) == Includes(name, "-")

\* HNamespace.splitConjunct: String(name).split('-')
RECURSIVE SplitFrom(_, _, _, _)
SplitFrom(name, i, part, parts) ==
    IF i > Len(name) THEN Append(parts, part)
    ELSE IF name[i] = "-" THEN SplitFrom(name, i + 1, << >>, Append(parts, part))
    ELSE SplitFrom(name, i + 1, Append(part, name[i]), parts)

splitConjunct(name) == SplitFrom(name, 1, << >>, << >>)

\* Array.prototype.join('-')
RECURSIVE Join(_)
Join(parts) ==
    IF parts = << >> THEN << >>
    ELSE IF Len(parts) = 1 THEN parts[1]
    ELSE parts[1] \o <<"-">> \o Join(Tail(parts))

\* HNamespace.conjuncts, by name: Object.keys(defs).filter(isConjunct)
conjuncts == SelectSeq(defs, isConjunct)

\* $conjunctsKeyMap[key]: the remaining components of every conjunct whose
\* first component is key, in the order of `conjuncts`; empty where the map
\* has no entry.
conjunctsKeyMap(key) ==
    LET split == [i \in DOMAIN conjuncts |-> splitConjunct(conjuncts[i])]
        Starts(c) == c[1] = key
    IN [i \in DOMAIN SelectSeq(split, Starts) |-> Tail(SelectSeq(split, Starts)[i])]

\* A match that asks for one of the remaining components only.
FindConjunctsMatchSome(markers, marker, match, j, found) ==
    LET Hit(m) == (\E t \in DOMAIN m : Includes(markers, m[t]))
                    /\ byName(Join(<<marker>> \o m)) # NoDef
        Defs == [k \in DOMAIN SelectSeq(match, Hit) |->
                    byName(Join(<<marker>> \o SelectSeq(match, Hit)[k]))]
    IN found \o Defs

\* The forEach over the matches of one marker in findConjuncts.
RECURSIVE FindConjunctsMatch(_, _, _, _, _)
FindConjunctsMatch(markers, marker, match, j, found) ==
    IF j > Len(match) THEN found
    ELSE LET m == match[j]
             def == byName(Join(<<marker>> \o m))
         IN FindConjunctsMatch(markers, marker, match, j + 1,
                IF (\A t \in DOMAIN m : Includes(markers, m[t])) /\ def # NoDef
                THEN Append(found, def)
                ELSE found)

RECURSIVE FindConjunctsLoop(_, _, _)
FindConjunctsLoop(markers, i, found) ==
    IF i > Len(markers) THEN found
    ELSE FindConjunctsLoop(markers, i + 1,
            FindConjunctsMatch(markers, markers[i],
                               conjunctsKeyMap(markers[i]), 1, found))

\* findConjuncts(markers, conjuncts): returns the array it appends to
findConjuncts(markers, found) == FindConjunctsLoop(markers, 1, found)

----------------------------------------------------------------------------
(* Reflection.                                                             *)

RECURSIVE FindDefsLoop(_, _, _)
FindDefsLoop(subject, i, acc) ==
    IF i > Len(subject) THEN acc
    ELSE LET name == subject[i].k
             def == byName(name)
         IN FindDefsLoop(subject, i + 1,
                IF def = NoDef THEN acc
                ELSE [foundDefs |-> Append(acc.foundDefs, def),
                      markers |-> IF IsKind(Get(subject, name), "marker")
                                  THEN Append(acc.markers, name)
                                  ELSE acc.markers])

\* findDefs(subject, foundDefs, markers): the two arrays it fills
findDefs(subject) == FindDefsLoop(subject, 1, [foundDefs |-> << >>, markers |-> << >>])

RECURSIVE FindSuperTypesFromDefsLoop(_, _, _)
FindSuperTypesFromDefsLoop(dicts, i, reflected) ==
    IF i > Len(dicts) THEN reflected
    ELSE FindSuperTypesFromDefsLoop(dicts, i + 1,
            findSuperTypes(defName(dicts[i]), SetAdd(reflected, dicts[i])))

\* A findSuperTypesFromDefs that adds the defs and none of their supertypes.
findSuperTypesFromDefsFlat(dicts) ==
    LET Add[i \in 0..Len(dicts)] ==
            IF i = 0 THEN << >> ELSE SetAdd(Add[i - 1], dicts[i])
    IN Add[Len(dicts)]

findSuperTypesFromDefs(dicts) == FindSuperTypesFromDefsLoop(dicts, 1, << >>)

\* reflect(subject): the Reflection (its defs and its subject)
reflect(subject) ==
    LET found == findDefs(subject)
        foundDefs == findConjuncts(found.markers, found.foundDefs)
    IN [defs |-> findSuperTypesFromDefs(foundDefs), subject |-> subject]

\* A fits that asks the first reflected def only.
ReflectionFitsFirst(reflection, base) ==
    reflection.defs # << >> /\ fits(defName(reflection.defs[1]), base)

\* Reflection.fits
ReflectionFits(reflection, base) ==
    \E i \in DOMAIN reflection.defs : fits(defName(reflection.defs[i]), base)

\* A typesWithInheritance that keeps every reflected def.
typesWithInheritanceAll(reflection) ==
    [i \in DOMAIN reflection.defs |->
        [def |-> reflection.defs[i],
         inheritance |-> inheritance(defName(reflection.defs[i]))]]

\* typesWithInheritance of Reflection.type: the reflected defs whose
\* inheritance includes entity, each with that inheritance, in Map order.
typesWithInheritance(reflection) ==
    LET entity == byName(<<"entity">>)
        all == [i \in DOMAIN reflection.defs |->
                    [def |-> reflection.defs[i],
                     inheritance |-> inheritance(defName(reflection.defs[i]))]]
    IN SelectSeq(all, LAMBDA t : Includes(t.inheritance, entity))

\* The reading "own inheritance holds no other candidate" of the loop.
TypeIncludedOwn(types, def) ==
    \E k, l \in DOMAIN types :
        /\ types[k].def = def
        /\ types[l].def # def
        /\ Includes(types[k].inheritance, types[l].def)

\* The inner loop of Reflection.type: def is in the inheritance of another
\* candidate.
TypeIncluded(types, def) ==
    \E k \in DOMAIN types :
        types[k].def # def /\ Includes(types[k].inheritance, def)

\* A type that takes the first candidate found.
ReflectionTypeFirst(reflection) ==
    LET types == typesWithInheritance(reflection)
    IN IF byName(<<"entity">>) # NoDef /\ types # << >> THEN types[1].def
       ELSE byName(<<"dict">>)

\* A type that takes the last of the candidates no other one includes.
ReflectionTypeLast(reflection) ==
    LET entity == byName(<<"entity">>)
        types == IF entity = NoDef THEN << >> ELSE typesWithInheritance(reflection)
        free == {i \in DOMAIN types : ~TypeIncluded(types, types[i].def)}
    IN IF free # {} THEN types[CHOOSE i \in free : \A j \in free : j <= i].def
       ELSE byName(<<"dict">>)

\* Reflection.type
ReflectionType(reflection) ==
    LET entity == byName(<<"entity">>)
        types == IF entity = NoDef THEN << >> ELSE typesWithInheritance(reflection)
        allDefs == [i \in DOMAIN types |-> types[i].def]
        free == {i \in DOMAIN allDefs : ~TypeIncluded(types, allDefs[i])}
        type == IF entity = NoDef THEN NoDef
                ELSE IF Len(types) = 1 THEN allDefs[1]
                ELSE IF free # {}
                     THEN allDefs[CHOOSE i \in free : \A j \in free : i <= j]
                ELSE IF allDefs # << >> THEN allDefs[1]
                ELSE NoDef
    IN IF type # NoDef THEN type ELSE byName(<<"dict">>)

defOfDict(subject) == ReflectionType(reflect(subject))

----------------------------------------------------------------------------
(* Associations.                                                           *)

\* hasComputedFromReciprocal(def)
hasComputedFromReciprocal(def) ==
    Has(def, IF has(<<"computedFromReciprocal">>)
             THEN <<"computedFromReciprocal">>
             ELSE <<"computed">>)

\* A reciprocal search that matches targets against the parent's own def
\* and none of its supertypes.
findReciprocalAssociationsOwn(parent, reciprocalOf) ==
    LET names == defs
        Matches(def) ==
            LET list == Get(def, reciprocalOf)
            IN /\ list.kind = "list"
               /\ \E k \in DOMAIN list.val :
                    byName(list.val[k]) # NoDef /\ byName(list.val[k]) = byName(parent)
    IN SelectSeq([i \in DOMAIN names |-> byName(names[i])], Matches)

\* findReciprocalAssociations(parent, reciprocalOf): the defs, in the order
\* of Object.keys(defs), whose reciprocalOf list names a def of the
\* parent's inheritance.
findReciprocalAssociations(parent, reciprocalOf) ==
    LET inh == inheritance(parent)
        names == defs
        Matches(def) ==
            LET list == Get(def, reciprocalOf)
            IN /\ list.kind = "list"
               /\ \E k \in DOMAIN list.val :
                    LET target == byName(list.val[k])
                    IN target # NoDef /\ Includes(inh, target)
    IN SelectSeq([i \in DOMAIN names |-> byName(names[i])], Matches)

\* associations(parent, association)
associations(parent, association) ==
    LET assocDef == byName(association)
        is == IF assocDef = NoDef THEN Undefined ELSE Get(assocDef, <<"is">>)
        reciprocalOf == Get(assocDef, <<"reciprocalOf">>)
    IN IF ~(is.kind = "list" /\ Includes(is.val, <<"association">>)) THEN << >>
       ELSE IF ~hasComputedFromReciprocal(assocDef)
            THEN LET list == IF byName(parent) = NoDef THEN Undefined
                             ELSE Get(byName(parent), association)
                 IN IF list.kind = "list" THEN reduceNameToDef(list.val) ELSE << >>
       ELSE IF reciprocalOf.kind # "symbol" THEN << >>
       ELSE IF byName(reciprocalOf.val[1]) = NoDef THEN << >>
       ELSE findReciprocalAssociations(parent, reciprocalOf.val[1])

tags(parent) == associations(parent, <<"tags">>)

----------------------------------------------------------------------------
(* Kind mapping.                                                           *)

\* The base kinds in the order defToKind tests them.
KindOrder == <<"marker", "bool", "number", "str", "coord", "date", "dateTime",
               "dict", "grid", "list", "na", "ref", "symbol", "time", "uri",
               "xstr">>

\* hsTypeDefs[kind]
hsTypeDefs(kind) == byName(<<kind>>)

\* The if / else-if chain of defToKind from the i-th kind on.
RECURSIVE FirstKind(_, _)
FirstKind(types, i) ==
    IF i > Len(KindOrder) THEN "undefined"
    ELSE LET typeDef == hsTypeDefs(KindOrder[i])
         IN IF typeDef # NoDef /\ Includes(types, typeDef) THEN KindOrder[i]
            ELSE FirstKind(types, i + 1)

\* A kind taken from the def and its direct supertypes only.
defToKindDirect(name) ==
    LET def == byName(name)
    IN IF def = NoDef THEN "undefined"
       ELSE FirstKind(<<def>> \o superTypesOf(name), 1)

\* defToKind(name): the kind, or "undefined"
defToKind(name) ==
    LET def == byName(name)
    IN IF def = NoDef THEN "undefined"
       ELSE FirstKind(<<def>> \o allSuperTypesOf(name), 1)

----------------------------------------------------------------------------
(* Validation.  validate returns nothing or throws a LocalizedError: the   *)
(* model returns Ok or the error's lex key and args.                       *)

Ok == [lex |-> "ok", name |-> << >>, kind |-> "", valueKind |-> ""]

Error(lex, name) == [lex |-> lex, name |-> name, kind |-> "", valueKind |-> ""]

\* The tag carries the marker: def.get(tag)?.equals(HMarker.make())
HasMarker(def, tag) == Get(def, tag).kind = "marker"

\* A kind check that lets any value pass.
validateKindLax(name, dict) ==
    IF defToKind(name) = "undefined" THEN Error("cannotFindKind", name) ELSE Ok

\* validateKind(name, dict)
validateKind(name, dict) ==
    LET kind == defToKind(name)
        value == Get(dict, name)
    IN IF kind = "undefined" THEN Error("cannotFindKind", name)
       ELSE IF value.kind \notin {"undefined", "null"} /\ ~IsKind(value, kind)
            THEN [lex |-> "kindMismatch", name |-> name, kind |-> kind,
                  valueKind |-> value.kind]
       ELSE Ok

\* Checks that test every tag's presence before any tag's kind.
CheckTagsPresenceFirst(requiredTags, i, dict, missingLex) ==
    LET absent == {k \in DOMAIN requiredTags : ~Has(dict, defName(requiredTags[k]))}
        wrong == {k \in DOMAIN requiredTags :
                    validateKind(defName(requiredTags[k]), dict) # Ok}
    IN IF absent # {}
       THEN Error(missingLex,
                  defName(requiredTags[CHOOSE k \in absent : \A l \in absent : k <= l]))
       ELSE IF wrong # {}
       THEN validateKind(
                defName(requiredTags[CHOOSE k \in wrong : \A l \in wrong : k <= l]),
                dict)
       ELSE Ok

\* The presence and kind checks over a list of required tags, tag by tag:
\* the two for loops of validate.
RECURSIVE CheckTags(_, _, _, _)
CheckTags(requiredTags, i, dict, missingLex) ==
    IF i > Len(requiredTags) THEN Ok
    ELSE LET name == defName(requiredTags[i])
             thrown == validateKind(name, dict)
         IN IF ~Has(dict, name) THEN Error(missingLex, name)
            ELSE IF thrown # Ok THEN thrown
            ELSE CheckTags(requiredTags, i + 1, dict, missingLex)

\* The mandatory tags of validate.
MandatoryTags(tagName) ==
    SelectSeq(<<byName(tagName)>> \o allSuperTypesOf(tagName),
              LAMBDA superDef : HasMarker(superDef, <<"mandatory">>))

\* The compulsory tags of validate.
CompulsoryTags(tagName) ==
    SelectSeq(tags(tagName), LAMBDA def : HasMarker(def, <<"compulsory">>))

\* A validate that checks the compulsory tags before the mandatory ones.
validateCompulsoryFirst(name, dict) ==
    IF ~IsKind(dict, "dict") THEN Error("invalidDict", << >>)
    ELSE IF ~ReflectionFits(reflect(dict.val), name)
         THEN Error("doesNotFitDict", name)
    ELSE LET thrown == CheckTags(CompulsoryTags(name), 1, dict.val,
                                 "cannotFindCompulsory")
         IN IF thrown # Ok THEN thrown
            ELSE CheckTags(MandatoryTags(name), 1, dict.val, "cannotFindMandatory")

\* A validate without the check that the name fits the dict.
validateWithoutFits(name, dict) ==
    IF ~IsKind(dict, "dict") THEN Error("invalidDict", << >>)
    ELSE LET thrown == CheckTags(MandatoryTags(name), 1, dict.val,
                                 "cannotFindMandatory")
         IN IF thrown # Ok THEN thrown
            ELSE CheckTags(CompulsoryTags(name), 1, dict.val, "cannotFindCompulsory")

\* validate(name, dict); dict is any value, a dict's entries are dict.val
validate(name, dict) ==
    IF ~IsKind(dict, "dict") THEN Error("invalidDict", << >>)
    ELSE IF ~ReflectionFits(reflect(dict.val), name)
         THEN Error("doesNotFitDict", name)
    ELSE LET thrown == CheckTags(MandatoryTags(name), 1, dict.val,
                                 "cannotFindMandatory")
         IN IF thrown # Ok THEN thrown
            ELSE CheckTags(CompulsoryTags(name), 1, dict.val, "cannotFindCompulsory")

\* isValid(name, dict)
isValid(name, dict) == validate(name, dict) = Ok

\* The for loop of validateAll over the entries of the dict.
RECURSIVE ValidateAllLoop(_, _)
ValidateAllLoop(dict, i) ==
    IF i > Len(dict.val) THEN Ok
    ELSE LET name == dict.val[i].k
             thrown == validate(name, dict)
             thrownKind == validateKind(name, dict.val)
         IN IF ~has(name) THEN ValidateAllLoop(dict, i + 1)
            ELSE IF thrown # Ok THEN thrown
            ELSE IF thrownKind # Ok THEN thrownKind
            ELSE ValidateAllLoop(dict, i + 1)

\* validateAll(dict)
validateAll(dict) ==
    IF ~IsKind(dict, "dict") THEN Error("invalidDict", << >>)
    ELSE ValidateAllLoop(dict, 1)

----------------------------------------------------------------------------
(* Strict lookup, implementation and newDict.  A call that may throw       *)
(* returns a record: thrown, the name the error message carries, and the   *)
(* value returned otherwise.                                               *)

Thrown(name) == [thrown |-> TRUE, name |-> name, val |-> << >>]

Returned(val) == [thrown |-> FALSE, name |-> << >>, val |-> val]

\* One argument of byAllNames: a name, or an array of names.
OneName(name) == [array |-> FALSE, names |-> <<name>>]

ArrayOf(names) == [array |-> TRUE, names |-> names]

\* The reduce of byAllNames: the flattened name list.
RECURSIVE Flatten(_)
Flatten(args) ==
    IF args = << >> THEN << >>
    ELSE Head(args).names \o Flatten(Tail(args))

\* The for loop of byAllNames.
RECURSIVE ByAllNamesLoop(_, _, _)
ByAllNamesLoop(nameList, i, dicts) ==
    IF i > Len(nameList) THEN Returned(dicts)
    ELSE LET dict == byName(nameList[i])
         IN IF dict # NoDef THEN ByAllNamesLoop(nameList, i + 1, Append(dicts, dict))
            ELSE Thrown(nameList[i])

\* A lookup that leaves out the names it does not find.
byAllNamesLenient(args) == Returned(reduceNameToDef(Flatten(args)))

\* byAllNames(...names)
byAllNames(args) == ByAllNamesLoop(Flatten(args), 1, << >>)

\* conjunctDefs(name)
conjunctDefs(name) == byAllNames(<<ArrayOf(splitConjunct(name))>>)

\* HNamespace.isFeature
isFeature(name) == Includes(name, ":")

\* The walk of implementation over the component defs: one Set fed by
\* findSuperTypes for each.
RECURSIVE ImplementationSuperTypes(_, _, _)
ImplementationSuperTypes(dicts, i, superTypes) ==
    IF i > Len(dicts) THEN superTypes
    ELSE LET walked == findSuperTypes(defName(dicts[i]), superTypes)
         IN ImplementationSuperTypes(dicts, i + 1, walked)

\* An implementation that adds no mandatory supertype.
implementationNoMandatory(name) ==
    LET found == conjunctDefs(name)
    IN IF found.thrown THEN found
       ELSE Returned(SelectSeq(found.val, LAMBDA def : ~isFeature(defName(def)))
                     \o SelectSeq(tags(name),
                                  LAMBDA tag : HasMarker(tag, <<"compulsory">>)))

\* implementation(name)
implementation(name) ==
    LET found == conjunctDefs(name)
        dicts == SelectSeq(found.val, LAMBDA def : ~isFeature(defName(def)))
        superTypes == ImplementationSuperTypes(dicts, 1, << >>)
    IN IF found.thrown THEN found
       ELSE Returned(dicts
                \o SelectSeq(superTypes,
                             LAMBDA superType : HasMarker(superType, <<"mandatory">>))
                \o SelectSeq(tags(name),
                             LAMBDA tag : HasMarker(tag, <<"compulsory">>)))

\* makeDefaultValue(kind): a value of the kind.
makeDefaultValue(kind) == [kind |-> kind, val |-> << >>]

\* HDict.set: a Map.set, which keeps the place of a key it already has.
set(dict, key, value) ==
    IF Has(dict, key)
    THEN [i \in DOMAIN dict |-> IF dict[i].k = key THEN [k |-> key, v |-> value]
                                ELSE dict[i]]
    ELSE Append(dict, [k |-> key, v |-> value])

\* The inner loop of newDict over [byName(name), ...defs].
RECURSIVE NewDictDefs(_, _, _)
NewDictDefs(all, i, dict) ==
    IF i > Len(all) THEN dict
    ELSE LET def == all[i]
             kind == IF def = NoDef THEN "undefined" ELSE defToKind(defName(def))
         IN NewDictDefs(all, i + 1,
                IF kind # "undefined"
                THEN set(dict, defName(def), makeDefaultValue(kind))
                ELSE dict)

\* The outer loop of newDict over the names.
RECURSIVE NewDictLoop(_, _, _)
NewDictLoop(names, i, dict) ==
    IF i > Len(names) THEN Returned([kind |-> "dict", val |-> dict])
    ELSE LET found == implementation(names[i])
         IN IF found.thrown THEN found
            ELSE NewDictLoop(names, i + 1,
                    NewDictDefs(<<byName(names[i])>> \o found.val, 1, dict))

\* newDict(names)
newDict(names) == NewDictLoop(names, 1, << >>)

----------------------------------------------------------------------------
(* Relationships between records.  hasRelationship is followed one pass of *)
(* its for loop at a time; an activation is a record [subject, ref, key]:  *)
(* the dict it queries, its ref parameter (which a pass may reassign) and  *)
(* the index of the key the loop is at.                                    *)

Ref(id) == [kind |-> "ref", val |-> <<id>>]

\* A value that `!value` and `if (value)` take for absent
Falsy(value) == value.kind \in {"undefined", "null"}

\* The two checks ahead of the loop: the def exists and inherits from
\* relationship.
isRelationship(relName) ==
    /\ byName(relName) # NoDef
    /\ \E i \in DOMAIN inheritance(relName) :
            defName(inheritance(relName)[i]) = <<"relationship">>

\* A guard that never finds a ref in the set.
queriedHasNothing(q, id) == FALSE

\* queried.has(subjectVal.value)
queriedHas(q, id) == id \in q

\* A pass in which the reciprocal branch leaves the ref target as it was.
PassSameRef(f, relName, relTerm, resolve, q) ==
    LET relationship == byName(relName)
        transitive == Has(relationship, <<"transitive">>)
        reciprocalOf == Get(relationship, <<"reciprocalOf">>)
        id == Get(f.subject, <<"id">>)
        subjectKey == Keys(f.subject)[f.key]
        subjectVal == Get(f.subject, subjectKey)
        subjectDef == byName(subjectKey)
        direct == Get(subjectDef, relName)
        invert == /\ Falsy(direct)
                  /\ ~Falsy(reciprocalOf)
                  /\ ~Falsy(f.ref)
                  /\ IsKind(id, "ref")
                  /\ f.ref = id
                  /\ IsKind(subjectVal, "ref")
        relVal == IF invert
                  THEN (IF Len(reciprocalOf.val) = 1
                        THEN Get(subjectDef, reciprocalOf.val[1])
                        ELSE Undefined)
                  ELSE direct
        ref == f.ref
        termMatch == IF relTerm # << >>
                     THEN IsKind(relVal, "symbol") /\ fits(relVal.val[1], relTerm)
                     ELSE TRUE
        Next(add) == [kind |-> "next", ref |-> ref, add |-> add, subject |-> NoDef]
    IN IF Falsy(relVal) THEN Next({})
       ELSE IF ~(termMatch /\ ~Falsy(ref))
       THEN (IF termMatch
             THEN [kind |-> "return", ref |-> ref, add |-> {}, subject |-> NoDef]
             ELSE Next({}))
       ELSE IF ref = subjectVal
       THEN [kind |-> "return", ref |-> ref, add |-> {}, subject |-> NoDef]
       ELSE IF transitive /\ resolve.given /\ IsKind(subjectVal, "ref")
       THEN (IF ~queriedHas(q, subjectVal.val[1])
             THEN (IF resolve.at[subjectVal.val[1]] # NoDef
                   THEN [kind |-> "call", ref |-> ref, add |-> {subjectVal.val[1]},
                         subject |-> resolve.at[subjectVal.val[1]]]
                   ELSE Next({subjectVal.val[1]}))
             ELSE Next({}))
       ELSE Next({})

\* One pass of the loop over subject.keys, for the activation f: whether it
\* returns true ("return"), goes on with the next key ("next") or calls
\* hasRelationship on the resolved record ("call"), with the activation's
\* ref after the pass and the refs the pass adds to queried.
Pass(f, relName, relTerm, resolve, q) ==
    LET relationship == byName(relName)
        transitive == Has(relationship, <<"transitive">>)
        reciprocalOf == Get(relationship, <<"reciprocalOf">>)
        id == Get(f.subject, <<"id">>)
        subjectKey == Keys(f.subject)[f.key]
        subjectVal == Get(f.subject, subjectKey)
        subjectDef == byName(subjectKey)
        direct == Get(subjectDef, relName)
        invert == /\ Falsy(direct)
                  /\ ~Falsy(reciprocalOf)
                  /\ ~Falsy(f.ref)
                  /\ IsKind(id, "ref")
                  /\ f.ref = id
                  /\ IsKind(subjectVal, "ref")
        relVal == IF invert
                  THEN (IF Len(reciprocalOf.val) = 1
                        THEN Get(subjectDef, reciprocalOf.val[1])
                        ELSE Undefined)
                  ELSE direct
        ref == IF invert /\ ~Falsy(relVal) THEN subjectVal ELSE f.ref
        termMatch == IF relTerm # << >>
                     THEN IsKind(relVal, "symbol") /\ fits(relVal.val[1], relTerm)
                     ELSE TRUE
        Next(add) == [kind |-> "next", ref |-> ref, add |-> add, subject |-> NoDef]
    IN IF Falsy(relVal) THEN Next({})
       ELSE IF ~(termMatch /\ ~Falsy(ref))
       THEN (IF termMatch
             THEN [kind |-> "return", ref |-> ref, add |-> {}, subject |-> NoDef]
             ELSE Next({}))
       ELSE IF ref = subjectVal
       THEN [kind |-> "return", ref |-> ref, add |-> {}, subject |-> NoDef]
       ELSE IF transitive /\ resolve.given /\ IsKind(subjectVal, "ref")
       THEN (IF ~queriedHas(q, subjectVal.val[1])
             THEN (IF resolve.at[subjectVal.val[1]] # NoDef
                   THEN [kind |-> "call", ref |-> ref, add |-> {subjectVal.val[1]},
                         subject |-> resolve.at[subjectVal.val[1]]]
                   ELSE Next({subjectVal.val[1]}))
             ELSE Next({}))
       ELSE Next({})

----------------------------------------------------------------------------
(* Operations on the namespace: each call records its arguments and what   *)
(* it returned.  The queries leave the namespace as it is, so what one     *)
(* returns does not depend on the queries before it: a behaviour is the    *)
(* construction of a namespace followed by one query, or by a query on the *)
(* result of the first.  hasRelationship, the memoized members and the     *)
(* default namespace have state of their own and are stepped further down. *)

Idle == [op |-> "new", args |-> << >>]

CallInheritance(name) ==
    /\ call' = [op |-> "inheritance", args |-> <<name>>]
    /\ ret' = inheritance(name)
    /\ UNCHANGED <<grid, aux>>

CallFits(name, base) ==
    /\ call' = [op |-> "fits", args |-> <<name, base>>]
    /\ ret' = fits(name, base)
    /\ UNCHANGED <<grid, aux>>

CallFitsMarker(name) ==
    /\ call' = [op |-> "fitsMarker", args |-> <<name>>]
    /\ ret' = fitsMarker(name)
    /\ UNCHANGED <<grid, aux>>

CallFitsVal(name) ==
    /\ call' = [op |-> "fitsVal", args |-> <<name>>]
    /\ ret' = fitsVal(name)
    /\ UNCHANGED <<grid, aux>>

CallFitsChoice(name) ==
    /\ call' = [op |-> "fitsChoice", args |-> <<name>>]
    /\ ret' = fitsChoice(name)
    /\ UNCHANGED <<grid, aux>>

CallFitsEntity(name) ==
    /\ call' = [op |-> "fitsEntity", args |-> <<name>>]
    /\ ret' = fitsEntity(name)
    /\ UNCHANGED <<grid, aux>>

----------------------------------------------------------------------------
(* Def tables for the inheritance algebra: every table over the names of   *)
(* TypeNames in which a def lists at most MaxIs supertypes, each of them a *)
(* name earlier in TypeNames (so the `is` graph is acyclic, diamonds       *)
(* included) or the name Missing, which no table defines.                  *)

MaxIs == 2

TypeNames == << <<"marker">>, <<"val">>, <<"choice">>, <<"entity">> >>

Missing == <<"nosuch">>

QueryNames == Range(TypeNames) \cup {Missing}

\* The elements of the set S in the order of the sequence `order`.
RECURSIVE InOrder(_, _)
InOrder(order, S) ==
    IF order = << >> THEN << >>
    ELSE (IF Head(order) \in S THEN <<Head(order)>> ELSE << >>)
            \o InOrder(Tail(order), S)

MkDef(name, is) == << [k |-> <<"def">>, v |-> Sym(name)],
                      [k |-> <<"is">>, v |-> List(is)] >>

\* What a table may hold for the i-th name: nothing, or a def whose `is`
\* list is drawn from the earlier names and Missing.
TypeChoices(i) ==
    {[present |-> FALSE, is |-> << >>]} \cup
    {[present |-> TRUE, is |-> InOrder(TypeNames \o <<Missing>>, S)] :
        S \in {T \in SUBSET ({TypeNames[j] : j \in 1..(i - 1)} \cup {Missing}) :
                    Cardinality(T) <= MaxIs}}

RECURSIVE GridOf(_, _)
GridOf(choice, i) ==
    IF i > Len(TypeNames) THEN << >>
    ELSE (IF choice[i].present THEN <<MkDef(TypeNames[i], choice[i].is)>>
          ELSE << >>) \o GridOf(choice, i + 1)

TypeGrids ==
    {GridOf(choice, 1) :
        choice \in {c \in [DOMAIN TypeNames ->
                                UNION {TypeChoices(i) : i \in DOMAIN TypeNames}] :
                        \A i \in DOMAIN TypeNames : c[i] \in TypeChoices(i)}}

InitTypes ==
    /\ grid \in TypeGrids
    /\ call = Idle
    /\ ret = FALSE
    /\ InitAux

NextTypes ==
    /\ call = Idle
    /\ \/ \E name \in QueryNames : CallInheritance(name)
       \/ \E name, base \in QueryNames : CallFits(name, base)
       \/ \E name \in QueryNames : CallFitsMarker(name)
       \/ \E name \in QueryNames : CallFitsVal(name)
       \/ \E name \in QueryNames : CallFitsChoice(name)
       \/ \E name \in QueryNames : CallFitsEntity(name)

SpecTypes == InitTypes /\ [][NextTypes]_vars

----------------------------------------------------------------------------
(* Def tables and subjects for reflection: the entity types equip, ahu and *)
(* meter (both under equip, meter also under marker), the markers ac and   *)
(* elec, and the conjuncts ac-elec and ac-elec-meter; entity, dict, elec   *)
(* and the conjuncts may be left out of a table.                           *)

MaxKeys == 3

CallReflect(subject) ==
    /\ call' = [op |-> "reflect", args |-> <<subject>>]
    /\ ret' = reflect(subject)
    /\ UNCHANGED <<grid, aux>>

CallDefOfDict(subject) ==
    /\ call' = [op |-> "defOfDict", args |-> <<subject>>]
    /\ ret' = defOfDict(subject)
    /\ UNCHANGED <<grid, aux>>

AcElec == <<"ac", "-", "elec">>

AcElecMeter == <<"ac", "-", "elec", "-", "meter">>

\* The rows a reflection table may hold for each name, in grid order; an
\* empty row sequence leaves the name out.
ReflectRows ==
    << {<<MkDef(<<"marker">>, << >>)>>},
       {<< >>, <<MkDef(<<"entity">>, << >>)>>},
       {<< >>, <<MkDef(<<"dict">>, << >>)>>},
       {<<MkDef(<<"equip">>, << <<"entity">> >>)>>},
       {<<MkDef(<<"ahu">>, << <<"equip">> >>)>>},
       {<<MkDef(<<"ac">>, << <<"marker">> >>)>>},
       {<< >>, <<MkDef(<<"elec">>, << <<"marker">> >>)>>},
       {<<MkDef(<<"meter">>, << <<"marker">>, <<"equip">> >>)>>},
       {<< >>, <<MkDef(AcElec, << <<"elec">> >>)>>},
       {<< >>, <<MkDef(AcElecMeter, << AcElec, <<"meter">> >>)>>} >>

\* Every grid that takes one of the row choices for each name, in order.
RECURSIVE GridsOf(_)
GridsOf(rowChoices) ==
    IF rowChoices = << >> THEN {<< >>}
    ELSE {rows \o rest : rows \in Head(rowChoices), rest \in GridsOf(Tail(rowChoices))}

ReflectGrids == GridsOf(ReflectRows)

\* The tags a subject may carry: markers, and `ac` also as a string.
SubjectEntries ==
    {[k |-> <<n>>, v |-> Marker] :
        n \in {"ahu", "equip", "ac", "elec", "meter"}}
    \cup {[k |-> <<"ac">>, v |-> StrVal]}

\* Every dict of at most MaxKeys of the entries, in every key order.
RECURSIVE DictsOver(_, _)
DictsOver(entries, maxKeys) ==
    IF maxKeys = 0 THEN {<< >>}
    ELSE LET shorter == DictsOver(entries, maxKeys - 1)
             longer == {Append(d, e) : d \in shorter, e \in entries}
         IN shorter \cup
            {d \in longer : \A i, j \in DOMAIN d : d[i].k = d[j].k => i = j}

Subjects == DictsOver(SubjectEntries, MaxKeys)

InitReflect ==
    /\ grid \in ReflectGrids
    /\ call = Idle
    /\ ret = FALSE
    /\ InitAux

NextReflect ==
    /\ call = Idle
    /\ \/ \E subject \in Subjects : CallReflect(subject)
       \/ \E subject \in Subjects : CallDefOfDict(subject)

SpecReflect == InitReflect /\ [][NextReflect]_vars

----------------------------------------------------------------------------
(* Def tables and dicts for validation: the entity chain ahu < equip <     *)
(* entity, each of which may be mandatory, the value tags dis (a str,      *)
(* compulsory on equip) and area (a number on ahu, which may be            *)
(* compulsory), and the association defs tagOn and tags.  entity and area  *)
(* may lack a kind.                                                        *)

CallValidate(name, dict) ==
    /\ call' = [op |-> "validate", args |-> <<name, dict>>]
    /\ ret' = validate(name, dict)
    /\ UNCHANGED <<grid, aux>>

CallIsValid(name, dict) ==
    /\ call' = [op |-> "isValid", args |-> <<name, dict>>]
    /\ ret' = isValid(name, dict)
    /\ UNCHANGED <<grid, aux>>

CallAssociations(parent, association) ==
    /\ call' = [op |-> "associations", args |-> <<parent, association>>]
    /\ ret' = associations(parent, association)
    /\ UNCHANGED <<grid, aux>>

CallByAllNames(names) ==
    /\ call' = [op |-> "byAllNames", args |-> names]
    /\ ret' = byAllNames(names)
    /\ UNCHANGED <<grid, aux>>

CallConjunctDefs(name) ==
    /\ call' = [op |-> "conjunctDefs", args |-> <<name>>]
    /\ ret' = conjunctDefs(name)
    /\ UNCHANGED <<grid, aux>>

CallValidateAll(dict) ==
    /\ call' = [op |-> "validateAll", args |-> <<dict>>]
    /\ ret' = validateAll(dict)
    /\ UNCHANGED <<grid, aux>>

Tag(name) == [k |-> <<name>>, v |-> Marker]

MkDefWith(name, is, extra) == MkDef(name, is) \o extra

\* With or without the marker tag.
Optional(name) == {<< >>, <<Tag(name)>>}

TagOn(names) == <<[k |-> <<"tagOn">>, v |-> List(names)]>>

ValidateRows ==
    << {<<MkDef(<<"marker">>, << >>)>>},
       {<<MkDef(<<"number">>, << >>)>>},
       {<<MkDef(<<"str">>, << >>)>>},
       {<<MkDef(<<"association">>, << >>)>>},
       {<<MkDef(<<"tagOn">>, << <<"association">> >>)>>},
       {<<MkDefWith(<<"tags">>, << <<"association">> >>,
                    <<[k |-> <<"reciprocalOf">>, v |-> Sym(<<"tagOn">>)],
                      Tag("computedFromReciprocal")>>)>>},
       {<<MkDef(<<"computedFromReciprocal">>, << <<"marker">> >>)>>},
       {<<MkDef(<<"entity">>, << <<"marker">> >>)>>,
        <<MkDefWith(<<"entity">>, << <<"marker">> >>, <<Tag("mandatory")>>)>>,
        <<MkDefWith(<<"entity">>, << >>, <<Tag("mandatory")>>)>>},
       {<<MkDefWith(<<"equip">>, << <<"entity">> >>, extra)>> :
            extra \in Optional("mandatory")},
       {<<MkDefWith(<<"ahu">>, << <<"equip">> >>, extra)>> :
            extra \in Optional("mandatory")},
       {<<MkDefWith(<<"dis">>, << <<"str">> >>,
                    TagOn(<< <<"equip">> >>) \o <<Tag("compulsory")>>)>>},
       {<<MkDefWith(<<"area">>, << <<"number">> >>, TagOn(<< <<"ahu">> >>))>>,
        <<MkDefWith(<<"area">>, << <<"number">> >>,
                    TagOn(<< <<"ahu">> >>) \o <<Tag("compulsory")>>)>>,
        <<MkDefWith(<<"area">>, << >>,
                    TagOn(<< <<"ahu">> >>) \o <<Tag("compulsory")>>)>>} >>

ValidateGrids == GridsOf(ValidateRows)

\* The values a dict may hold under each key, in key order.
ValidateEntries ==
    << {[k |-> <<"ahu">>, v |-> v] : v \in {Marker, StrVal}},
       {[k |-> <<"equip">>, v |-> v] : v \in {Marker}},
       {[k |-> <<"entity">>, v |-> v] : v \in {Marker, Null}},
       {[k |-> <<"dis">>, v |-> v] : v \in {StrVal}},
       {[k |-> <<"area">>, v |-> v] : v \in {NumVal, StrVal}} >>

\* Every dict that holds, for each key, one of its values or nothing.
RECURSIVE DictsFrom(_)
DictsFrom(entries) ==
    IF entries = << >> THEN {<< >>}
    ELSE {first \o rest : first \in {<< >>} \cup {<<e>> : e \in Head(entries)},
                           rest \in DictsFrom(Tail(entries))}

\* What validate may be handed: a dict, or a value that is not a dict.
ValidateInputs ==
    {[kind |-> "dict", val |-> entries] : entries \in DictsFrom(ValidateEntries)}
    \cup {StrVal, Undefined}

ValidateNames == {<<"ahu">>, <<"equip">>, Missing}

InitValidate ==
    /\ grid \in ValidateGrids
    /\ call = Idle
    /\ ret = FALSE
    /\ InitAux

NextValidate ==
    /\ call = Idle
    /\ \/ \E name \in ValidateNames, dict \in ValidateInputs : CallValidate(name, dict)
       \/ \E name \in ValidateNames, dict \in ValidateInputs : CallIsValid(name, dict)

SpecValidate == InitValidate /\ [][NextValidate]_vars

----------------------------------------------------------------------------
(* Def tables and names for newDict: the chain meter < equip < entity,     *)
(* the marker elec (which a table may lack), the conjunct elec-meter       *)
(* (under meter, or under the mandatory marker phase), the feature lib:ph  *)
(* (under phase), the str tag dis on equip, and curVal, which has no kind. *)
(* A dict built by newDict may then be validated for one of its names.     *)

MaxNames == 1

CallNewDict(names) ==
    /\ call' = [op |-> "newDict", args |-> <<names>>]
    /\ ret' = newDict(names)
    /\ UNCHANGED <<grid, aux>>

ElecMeter == <<"elec", "-", "meter">>

LibPh == <<"lib", ":", "ph">>

NewDictRows ==
    << {<<MkDef(<<"marker">>, << >>)>>},
       {<<MkDef(<<"str">>, << >>)>>},
       {<<MkDef(<<"association">>, << >>)>>},
       {<<MkDef(<<"tagOn">>, << <<"association">> >>)>>},
       {<<MkDefWith(<<"tags">>, << <<"association">> >>,
                    <<[k |-> <<"reciprocalOf">>, v |-> Sym(<<"tagOn">>)],
                      Tag("computedFromReciprocal")>>)>>},
       {<<MkDef(<<"computedFromReciprocal">>, << <<"marker">> >>)>>},
       {<<MkDef(<<"entity">>, << <<"marker">> >>)>>,
        <<MkDefWith(<<"entity">>, << <<"marker">> >>, <<Tag("mandatory")>>)>>,
        <<MkDefWith(<<"entity">>, << >>, <<Tag("mandatory")>>)>>},
       {<<MkDefWith(<<"equip">>, << <<"entity">> >>, extra)>> :
            extra \in Optional("mandatory")},
       {<<MkDef(<<"meter">>, << <<"equip">> >>)>>},
       {<< >>, <<MkDef(<<"elec">>, << <<"marker">> >>)>>},
       {<<MkDefWith(<<"phase">>, << <<"marker">> >>, <<Tag("mandatory")>>)>>},
       {<<MkDef(ElecMeter, << <<"meter">> >>)>>,
        <<MkDef(ElecMeter, << <<"phase">> >>)>>},
       {<<MkDef(LibPh, << <<"phase">> >>)>>},
       {<<MkDefWith(<<"dis">>, << <<"str">> >>, TagOn(<< <<"equip">> >>) \o extra)>> :
            extra \in Optional("compulsory")},
       {<<MkDef(<<"curVal">>, << >>)>>} >>

NewDictGrids == GridsOf(NewDictRows)

NewDictNames ==
    {<<"meter">>, <<"equip">>, ElecMeter, LibPh, <<"dis">>, <<"curVal">>, Missing}

\* Every list of at most maxLen of the names.
RECURSIVE ListsOver(_, _)
ListsOver(names, maxLen) ==
    IF maxLen = 0 THEN {<< >>}
    ELSE LET shorter == ListsOver(names, maxLen - 1)
         IN shorter \cup {Append(l, n) : l \in shorter, n \in names}

NewDictLists == ListsOver(NewDictNames, MaxNames)

InitNewDict ==
    /\ grid \in NewDictGrids
    /\ call = Idle
    /\ ret = FALSE
    /\ InitAux

NextNewDict ==
    \/ /\ call = Idle
       /\ \E names \in NewDictLists : CallNewDict(names)
    \/ /\ call.op = "newDict"
       /\ ~ret.thrown
       /\ \E name \in Range(call.args[1]) : CallValidate(name, ret.val)

SpecNewDict == InitNewDict /\ [][NextNewDict]_vars

----------------------------------------------------------------------------
(* Def tables and dicts for the kind checks: the marker site, the number   *)
(* tag area on site (plain, mandatory or compulsory) and curVal on site,   *)
(* which has no kind (plain or compulsory).  The dicts hold their keys in  *)
(* every order, `note` being a key that names no def.                      *)

KindRows ==
    << {<<MkDef(<<"marker">>, << >>)>>},
       {<<MkDef(<<"number">>, << >>)>>},
       {<<MkDef(<<"str">>, << >>)>>},
       {<<MkDef(<<"association">>, << >>)>>},
       {<<MkDef(<<"tagOn">>, << <<"association">> >>)>>},
       {<<MkDefWith(<<"tags">>, << <<"association">> >>,
                    <<[k |-> <<"reciprocalOf">>, v |-> Sym(<<"tagOn">>)],
                      Tag("computedFromReciprocal")>>)>>},
       {<<MkDef(<<"computedFromReciprocal">>, << <<"marker">> >>)>>},
       {<<MkDef(<<"site">>, << <<"marker">> >>)>>},
       {<<MkDefWith(<<"area">>, << <<"number">> >>, TagOn(<< <<"site">> >>) \o extra)>> :
            extra \in {<< >>, <<Tag("mandatory")>>, <<Tag("compulsory")>>}},
       {<<MkDefWith(<<"curVal">>, << >>, TagOn(<< <<"site">> >>) \o extra)>> :
            extra \in Optional("compulsory")} >>

KindGrids == GridsOf(KindRows)

KindEntries ==
    {[k |-> <<"site">>, v |-> Marker], [k |-> <<"note">>, v |-> StrVal]}
    \cup {[k |-> <<n>>, v |-> v] : n \in {"area", "curVal"}, v \in {NumVal, StrVal}}

KindInputs ==
    {[kind |-> "dict", val |-> entries] : entries \in DictsOver(KindEntries, MaxKeys)}
    \cup {StrVal}

KindNames == {<<"site">>, <<"area">>, <<"curVal">>, Missing}

InitKinds ==
    /\ grid \in KindGrids
    /\ call = Idle
    /\ ret = FALSE
    /\ InitAux

NextKinds ==
    /\ call = Idle
    /\ \/ \E name \in KindNames, dict \in KindInputs : CallValidate(name, dict)
       \/ \E dict \in KindInputs : CallValidateAll(dict)

SpecKinds == InitKinds /\ [][NextKinds]_vars

----------------------------------------------------------------------------
(* Def tables for associations: tagOn under association, myTagOn under     *)
(* tagOn, and tags, which may name its reciprocal (tagOn, or a name that   *)
(* is no def) and may carry computedFromReciprocal or computed; the def    *)
(* computedFromReciprocal may be left out.  office is under site; dis and  *)
(* area list their targets under tagOn and myTagOn.                        *)

ReciprocalOf(name) == <<[k |-> <<"reciprocalOf">>, v |-> Sym(name)]>>

AssocRows ==
    << {<<MkDef(<<"marker">>, << >>)>>},
       {<<MkDef(<<"association">>, << >>)>>},
       {<< >>, <<MkDef(<<"computedFromReciprocal">>, << <<"marker">> >>)>>},
       {<<MkDef(<<"tagOn">>, << <<"association">> >>)>>},
       {<<MkDef(<<"myTagOn">>, << <<"tagOn">> >>)>>},
       {<<MkDefWith(<<"tags">>, << <<"association">> >>, recip \o computed)>> :
            recip \in {<< >>, ReciprocalOf(<<"tagOn">>), ReciprocalOf(Missing)},
            computed \in {<< >>, <<Tag("computedFromReciprocal")>>, <<Tag("computed")>>}},
       {<<MkDef(<<"site">>, << <<"marker">> >>)>>},
       {<<MkDef(<<"office">>, << <<"site">> >>)>>},
       {<<MkDefWith(<<"dis">>, << <<"marker">> >>, tagOn \o
                    <<[k |-> <<"myTagOn">>, v |-> List(<< <<"site">> >>)]>>)>> :
            tagOn \in {<< >>, TagOn(<< <<"site">> >>)}},
       {<<MkDefWith(<<"area">>, << <<"marker">> >>, TagOn(targets))>> :
            targets \in {<< >>, << <<"office">> >>, << Missing, <<"site">> >>,
                         << <<"site">>, <<"office">> >>}} >>

AssocGrids == GridsOf(AssocRows)

AssocParents == {<<"site">>, <<"office">>, <<"dis">>, <<"area">>, Missing}

AssocNames == {<<"tagOn">>, <<"myTagOn">>, <<"tags">>, <<"site">>, Missing}

InitAssoc ==
    /\ grid \in AssocGrids
    /\ call = Idle
    /\ ret = FALSE
    /\ InitAux

NextAssoc ==
    /\ call = Idle
    /\ \E parent \in AssocParents, association \in AssocNames :
            CallAssociations(parent, association)

SpecAssoc == InitAssoc /\ [][NextAssoc]_vars

----------------------------------------------------------------------------
(* hasRelationship as a process.  The call makes the checks ahead of the   *)
(* loop and sets up the first activation; each step is one pass of the     *)
(* innermost activation's loop.  A pass that returns true makes every      *)
(* caller return true in turn (match = true, then return true), so the     *)
(* whole stack is unwound in that step; an activation whose loop is over   *)
(* returns false and its caller goes on with its next key.  The checks     *)
(* ahead of the loop give the same answer in a nested call as in the       *)
(* first, relName being the same.  At most MaxDepth activations are        *)
(* followed.  Every call of resolve is entered in the history with the ref *)
(* it is given, the queried set and the ref target at that moment: a pass  *)
(* calls resolve exactly when it adds to queried, right after adding.      *)

MaxDepth == 6

CallHasRelationship(subject, relName, relTerm, ref, resolve) ==
    /\ call' = [op |-> "hasRelationship",
                args |-> [subject |-> subject, relName |-> relName,
                          relTerm |-> relTerm, ref |-> ref, resolve |-> resolve]]
    /\ ret' = FALSE
    /\ queried' = {}
    /\ frames' = IF isRelationship(relName)
                 THEN <<[subject |-> subject, ref |-> ref, key |-> 1]>>
                 ELSE << >>
    /\ UNCHANGED <<grid, memo, defaultNamespace, heap, log>>

StepHasRelationship ==
    /\ call.op = "hasRelationship"
    /\ frames # << >>
    /\ LET n == Len(frames)
           f == frames[n]
           a == call.args
       IN IF f.key > Len(f.subject)
          THEN /\ frames' = IF n = 1 THEN << >>
                            ELSE [SubSeq(frames, 1, n - 1) EXCEPT ![n - 1].key = @ + 1]
               /\ ret' = FALSE
               /\ UNCHANGED <<queried, log>>
          ELSE LET o == Pass(f, a.relName, a.relTerm, a.resolve, queried)
               IN /\ o.kind = "call" => n < MaxDepth
                  /\ queried' = queried \cup o.add
                  /\ log' = log \o [i \in 1..Cardinality(o.add) |->
                                        [resolve |-> CHOOSE id \in o.add : TRUE,
                                         queried |-> queried \cup o.add,
                                         ref |-> o.ref]]
                  /\ ret' = (o.kind = "return")
                  /\ frames' =
                        CASE o.kind = "return" -> << >>
                          [] o.kind = "next" ->
                                [frames EXCEPT ![n] = [f EXCEPT !.key = @ + 1,
                                                                !.ref = o.ref]]
                          [] o.kind = "call" ->
                                Append([frames EXCEPT ![n].ref = o.ref],
                                       [subject |-> o.subject, ref |-> o.ref,
                                        key |-> 1])
    /\ UNCHANGED <<grid, call, memo, defaultNamespace, heap>>

\* The records: a, b and c each carry their id and a spaceRef; d is the id
\* of no record.  The def of spaceRef is containedBy a space, the def of
\* childRef contains one.
RecordIds == {<<"a">>, <<"b">>, <<"c">>}

RefIds == RecordIds \cup {<<"d">>}

Record(id, to) ==
    << [k |-> <<"id">>, v |-> Ref(id)], [k |-> <<"spaceRef">>, v |-> Ref(to)] >>

\* resolve callbacks over the records whose spaceRefs are given by `to`:
\* none, the lookup by id, the lookup that does not find c, the one that
\* answers every ref with a, and the one that mixes up b and c.
Resolves(to) ==
    LET rec(id) == Record(id, to[id])
        swap(id) == IF id = <<"b">> THEN <<"c">> ELSE IF id = <<"c">> THEN <<"b">> ELSE id
    IN {[given |-> FALSE, at |-> [id \in RefIds |-> NoDef]],
        [given |-> TRUE, at |-> [id \in RefIds |-> IF id \in RecordIds THEN rec(id) ELSE NoDef]],
        [given |-> TRUE, at |-> [id \in RefIds |->
            IF id \in RecordIds \ {<<"c">>} THEN rec(id) ELSE NoDef]],
        [given |-> TRUE, at |-> [id \in RefIds |-> rec(<<"a">>)]],
        [given |-> TRUE, at |-> [id \in RefIds |->
            IF id \in RecordIds THEN rec(swap(id)) ELSE NoDef]]}

RelRows ==
    << {<<MkDef(<<"marker">>, << >>)>>},
       {<<MkDef(<<"relationship">>, << >>)>>},
       {<<MkDef(<<"space">>, << <<"marker">> >>)>>},
       {<<MkDef(<<"site">>, << <<"marker">> >>)>>},
       {<<MkDef(<<"contains">>, << <<"relationship">> >>)>>},
       {<<MkDefWith(<<"containedBy">>, << <<"relationship">> >>, <<Tag("transitive")>>)>>,
        <<MkDefWith(<<"containedBy">>, << <<"relationship">> >>, << >>)>>,
        <<MkDefWith(<<"containedBy">>, << <<"relationship">> >>,
                    <<Tag("transitive")>> \o ReciprocalOf(<<"contains">>))>>,
        <<MkDefWith(<<"containedBy">>, << >>, <<Tag("transitive")>>)>>},
       {<<MkDefWith(<<"spaceRef">>, << >>,
                    <<[k |-> <<"containedBy">>, v |-> Sym(<<"space">>)]>>)>>},
       {<<MkDefWith(<<"childRef">>, << >>,
                    <<[k |-> <<"contains">>, v |-> Sym(<<"space">>)]>>)>>} >>

RelGrids == GridsOf(RelRows)

\* The subject: record a, with or without a childRef.
RelSubjects(to) ==
    {Record(<<"a">>, to[<<"a">>]),
     Record(<<"a">>, to[<<"a">>]) \o <<[k |-> <<"childRef">>, v |-> Ref(<<"b">>)]>>}

InitRel ==
    /\ grid \in RelGrids
    /\ call = Idle
    /\ ret = FALSE
    /\ InitAux

NextRel ==
    \/ /\ call = Idle
       /\ \E to \in [RecordIds -> RefIds] :
            \E subject \in RelSubjects(to), resolve \in Resolves(to),
               relTerm \in {<< >>, <<"space">>, <<"site">>},
               ref \in {Undefined} \cup {Ref(id) : id \in RefIds} :
                CallHasRelationship(subject, <<"containedBy">>, relTerm, ref, resolve)
    \/ StepHasRelationship

SpecRel == InitRel /\ [][NextRel]_vars

----------------------------------------------------------------------------
(* The memoized members.  A member marked @memoize() keeps what its first  *)
(* evaluation returned, per namespace and per argument; `memo` holds those *)
(* entries [key, val, obj], obj telling one returned object from another.  *)
(* An evaluation takes the caches and the history as [memo, log] and gives *)
(* them back with its value as [memo, log, val]; every read of a memoized  *)
(* member is entered in the history.  The grid itself stays open to its    *)
(* holder (HNamespace.grid), who may add rows at any time.                 *)

Key(member, arg) == [member |-> member, arg |-> arg]

Cached(m, key) == \E i \in DOMAIN m : m[i].key = key

\* memoize: the cached entry if there is one; else the evaluation `c` of
\* the body is kept and returned.
memoize(st, key, c) ==
    IF Cached(st.memo, key)
    THEN LET hit == st.memo[CHOOSE i \in DOMAIN st.memo : st.memo[i].key = key]
         IN [memo |-> st.memo,
             log |-> Append(st.log, [key |-> key, val |-> hit.val, obj |-> hit.obj,
                                     computed |-> FALSE]),
             val |-> hit.val]
    ELSE LET obj == Len(c.log) + 1
         IN [memo |-> Append(c.memo, [key |-> key, val |-> c.val, obj |-> obj]),
             log |-> Append(c.log, [key |-> key, val |-> c.val, obj |-> obj,
                                    computed |-> TRUE]),
             val |-> c.val]

\* The loop of the defs getter: defs[String(name)] = dict, row by row.  The
\* table keeps its names in the order they first came and, for each, the
\* last row that carries it.
RECURSIVE DefsFrom(_, _, _)
DefsFrom(rows, i, table) ==
    IF i > Len(rows) THEN table
    ELSE LET name == defName(rows[i])
             at == {j \in DOMAIN table : defName(table[j]) = name}
         IN DefsFrom(rows, i + 1,
                IF name = << >> THEN table
                ELSE IF at # {} THEN [table EXCEPT ![CHOOSE j \in at : TRUE] = rows[i]]
                ELSE Append(table, rows[i]))

\* The defs getter evaluated anew at every read.
memoDefsEachTime(st) ==
    LET table == DefsFrom(grid, 1, << >>)
        obj == Len(st.log) + 1
    IN [memo |-> st.memo,
        log |-> Append(st.log, [key |-> Key("defs", << >>), val |-> table,
                                obj |-> obj, computed |-> TRUE]),
        val |-> table]

\* @memoize() get defs()
memoDefs(st) ==
    memoize(st, Key("defs", << >>),
            [memo |-> st.memo, log |-> st.log, val |-> DefsFrom(grid, 1, << >>)])

\* byName(name): this.defs[String(name)]
readByName(st, name) ==
    LET d == memoDefs(st)
        at == {j \in DOMAIN d.val : defName(d.val[j]) = name /\ name # << >>}
    IN [memo |-> d.memo, log |-> d.log,
        val |-> IF at = {} THEN NoDef ELSE d.val[CHOOSE j \in at : TRUE]]

\* @memoize() get conjuncts()
memoConjuncts(st) ==
    memoize(st, Key("conjuncts", << >>),
            LET d == memoDefs(st)
                IsConjunctDef(row) == isConjunct(defName(row))
            IN [memo |-> d.memo, log |-> d.log, val |-> SelectSeq(d.val, IsConjunctDef)])

\* reduce(this.reduceNameToDef, []) over an `is` list
RECURSIVE readNamesToDefs(_, _, _, _)
readNamesToDefs(st, names, i, dicts) ==
    IF i > Len(names) THEN [memo |-> st.memo, log |-> st.log, val |-> dicts]
    ELSE IF names[i] = << >> THEN readNamesToDefs(st, names, i + 1, dicts)
    ELSE LET def == readByName(st, names[i])
         IN readNamesToDefs([memo |-> def.memo, log |-> def.log], names, i + 1,
                            IF def.val # NoDef THEN Append(dicts, def.val) ELSE dicts)

\* @memoize() doSuperTypesOf(name)
memoDoSuperTypesOf(st, name) ==
    memoize(st, Key("doSuperTypesOf", name),
            LET def == readByName(st, name)
                is == Get(def.val, <<"is">>)
            IN IF is.kind = "list"
               THEN readNamesToDefs([memo |-> def.memo, log |-> def.log], is.val, 1, << >>)
               ELSE [memo |-> def.memo, log |-> def.log, val |-> << >>])

\* superTypesOf(name): has(name) ? doSuperTypesOf(name) : []
readSuperTypesOf(st, name) ==
    LET def == readByName(st, name)
    IN IF def.val # NoDef
       THEN memoDoSuperTypesOf([memo |-> def.memo, log |-> def.log], name)
       ELSE [memo |-> def.memo, log |-> def.log, val |-> << >>]

\* findSuperTypes(name, superTypes)
RECURSIVE readFindSuperTypes(_, _, _)
RECURSIVE readFindSuperTypesLoop(_, _, _, _)
readFindSuperTypesLoop(st, supers, i, superTypes) ==
    IF i > Len(supers) THEN [memo |-> st.memo, log |-> st.log, val |-> superTypes]
    ELSE LET added == readFindSuperTypes(st, defName(supers[i]),
                                         SetAdd(superTypes, supers[i]))
         IN readFindSuperTypesLoop([memo |-> added.memo, log |-> added.log],
                                   supers, i + 1, added.val)

readFindSuperTypes(st, name, superTypes) ==
    LET supers == readSuperTypesOf(st, name)
    IN readFindSuperTypesLoop([memo |-> supers.memo, log |-> supers.log],
                              supers.val, 1, superTypes)

\* @memoize() doInheritance(name)
memoDoInheritance(st, name) ==
    memoize(st, Key("doInheritance", name),
            LET def == readByName(st, name)
            IN IF def.val # NoDef
               THEN readFindSuperTypes([memo |-> def.memo, log |-> def.log], name,
                                       <<def.val>>)
               ELSE [memo |-> def.memo, log |-> def.log, val |-> << >>])

\* inheritance(name): has(name) ? doInheritance(name) : []
readInheritance(st, name) ==
    LET def == readByName(st, name)
    IN IF def.val # NoDef
       THEN memoDoInheritance([memo |-> def.memo, log |-> def.log], name)
       ELSE [memo |-> def.memo, log |-> def.log, val |-> << >>]

\* A behaviour makes at most MaxReads calls, numbered in call.n, and adds at
\* most MaxAdded rows.
MaxReads == 3

MaxAdded == 1

Reading(op, args, r) ==
    /\ call # Idle => call.n < MaxReads
    /\ call' = [op |-> op, args |-> args, n |-> IF call = Idle THEN 1 ELSE call.n + 1]
    /\ ret' = r.val
    /\ memo' = r.memo
    /\ log' = r.log
    /\ UNCHANGED <<grid, frames, queried, defaultNamespace, heap>>

ReadDefs == Reading("defs", << >>, memoDefs([memo |-> memo, log |-> log]))

ReadConjuncts == Reading("conjuncts", << >>, memoConjuncts([memo |-> memo, log |-> log]))

ReadSuperTypesOf(name) ==
    Reading("superTypesOf", <<name>>, readSuperTypesOf([memo |-> memo, log |-> log], name))

ReadInheritance(name) ==
    Reading("inheritance", <<name>>, readInheritance([memo |-> memo, log |-> log], name))

\* HGrid.add(row) by the holder of the grid
GridAdd(row) ==
    /\ ~Includes(grid, row)
    /\ grid' = Append(grid, row)
    /\ UNCHANGED <<call, ret, aux>>

HotWater == <<"hot", "-", "water">>

MemoRows ==
    << {<<MkDef(<<"marker">>, << >>)>>},
       {<<MkDef(<<"site">>, << <<"marker">> >>)>>, << >>},
       {<<MkDef(<<"meter">>, << <<"site">> >>)>>},
       {<< >>, <<MkDef(ElecMeter, << <<"meter">> >>)>>} >>

MemoGrids == GridsOf(MemoRows)

\* The rows added later: a new conjunct, and a second row for meter.
AddedRows ==
    {MkDef(HotWater, << <<"marker">> >>), MkDef(<<"meter">>, << <<"marker">> >>)}

MemoNames == {<<"meter">>, <<"site">>, Missing}

InitMemo ==
    /\ grid \in MemoGrids
    /\ call = Idle
    /\ ret = FALSE
    /\ InitAux

NextMemo ==
    \/ ReadDefs
    \/ ReadConjuncts
    \/ \E name \in MemoNames : ReadSuperTypesOf(name)
    \/ \E name \in MemoNames : ReadInheritance(name)
    \/ /\ Len(grid) < Cardinality(DOMAIN MemoRows) + MaxAdded
       /\ \E row \in AddedRows : GridAdd(row)

SpecMemo == InitMemo /\ [][NextMemo]_vars

----------------------------------------------------------------------------
(* The default namespace.  An HNamespace instance is its place in `heap`,  *)
(* which holds the grid each instance was constructed over; the module     *)
(* variable defaultNamespace is the set holding the instance it refers to, *)
(* empty while it is undefined.  The hosting application has constructed   *)
(* the namespaces of HostGrids; `grid` is the grid of the namespace the    *)
(* last query went to.                                                     *)

\* A getter that constructs its namespace and does not keep it.
getDefaultNamespaceNotKept(d, h) ==
    IF d # {}
    THEN [ns |-> CHOOSE n \in d : TRUE, d |-> d, heap |-> h]
    ELSE [ns |-> Len(h) + 1, d |-> d, heap |-> Append(h, << >>)]

\* static get defaultNamespace():
\*   defaultNamespace ?? (defaultNamespace = new HNamespace(HGrid.make({})))
getDefaultNamespace(d, h) ==
    IF d # {}
    THEN [ns |-> CHOOSE n \in d : TRUE, d |-> d, heap |-> h]
    ELSE [ns |-> Len(h) + 1, d |-> {Len(h) + 1}, heap |-> Append(h, << >>)]

MaxOps == 4

GetDefaultNamespace ==
    /\ Len(log) < MaxOps
    /\ LET got == getDefaultNamespace(defaultNamespace, heap)
       IN /\ call' = [op |-> "get defaultNamespace", args |-> << >>]
          /\ ret' = got.ns
          /\ defaultNamespace' = got.d
          /\ heap' = got.heap
          /\ log' = Append(log, [op |-> "get", ns |-> got.ns])
    /\ UNCHANGED <<grid, frames, queried, memo>>

\* static set defaultNamespace(namespace)
SetDefaultNamespace(namespace) ==
    /\ Len(log) < MaxOps
    /\ call' = [op |-> "set defaultNamespace", args |-> <<namespace>>]
    /\ ret' = FALSE
    /\ defaultNamespace' = {namespace}
    /\ log' = Append(log, [op |-> "set", ns |-> namespace])
    /\ UNCHANGED <<grid, frames, queried, memo, heap>>

\* HDict.reflect() without a namespace, up to its call of ns.reflect(this):
\* const ns = namespace ?? HNamespace.defaultNamespace
DictReflect(subject) ==
    /\ Len(log) < MaxOps
    /\ LET got == getDefaultNamespace(defaultNamespace, heap)
       IN /\ call' = [op |-> "HDict.reflect", args |-> <<subject>>]
          /\ defaultNamespace' = got.d
          /\ heap' = got.heap
          /\ log' = Append(log, [op |-> "get", ns |-> got.ns])
          /\ grid' = got.heap[got.ns]
          /\ ret' = FALSE
    /\ UNCHANGED <<frames, queried, memo>>

HostGrids ==
    << <<MkDef(<<"marker">>, << >>), MkDef(<<"site">>, << <<"marker">> >>)>>,
       <<MkDef(<<"marker">>, << >>), MkDef(<<"entity">>, << <<"marker">> >>),
         MkDef(<<"site">>, << <<"entity">> >>)>> >>

InitDefault ==
    /\ grid = HostGrids[1]
    /\ call = Idle
    /\ ret = FALSE
    /\ frames = << >>
    /\ queried = {}
    /\ memo = << >>
    /\ defaultNamespace = {}
    /\ heap = HostGrids
    /\ log = << >>

\* HDict.reflect goes on with ns.reflect(this) before anything else happens.
NextDefault ==
    \/ /\ call.op # "HDict.reflect"
       /\ \/ GetDefaultNamespace
          \/ \E namespace \in DOMAIN heap : SetDefaultNamespace(namespace)
          \/ DictReflect(<<Tag("site")>>)
    \/ /\ call.op = "HDict.reflect"
       /\ CallReflect(call.args[1])

SpecDefault == InitDefault /\ [][NextDefault]_vars

----------------------------------------------------------------------------
(* Def tables for defToKind: base kind defs that may be missing, a def     *)
(* `a` over two of them in either order, and a def `b` over `a` and a      *)
(* third.                                                                  *)

CallDefToKind(name) ==
    /\ call' = [op |-> "defToKind", args |-> <<name>>]
    /\ ret' = defToKind(name)
    /\ UNCHANGED <<grid, aux>>

BaseKindRows ==
    << {<< >>, <<MkDef(<<"marker">>, << >>)>>},
       {<< >>, <<MkDef(<<"number">>, << >>)>>},
       {<< >>, <<MkDef(<<"str">>, << >>)>>},
       {<<MkDef(<<"ref">>, << >>)>>},
       {<<MkDef(<<"xstr">>, << >>)>>},
       {<<MkDef(<<"a">>, is)>> :
            is \in {<< >>, << <<"str">>, <<"number">> >>, << <<"number">>, <<"str">> >>,
                    << <<"xstr">>, <<"str">> >>, <<Missing>>}},
       {<<MkDef(<<"b">>, is)>> :
            is \in {<< <<"a">>, <<"ref">> >>, << <<"ref">>, <<"a">> >>,
                    << <<"a">>, <<"marker">> >>, << <<"xstr">> >>}} >>

BaseKindGrids == GridsOf(BaseKindRows)

BaseKindNames ==
    {<<"a">>, <<"b">>, <<"marker">>, <<"number">>, <<"str">>, <<"ref">>, Missing}

InitDefToKind ==
    /\ grid \in BaseKindGrids
    /\ call = Idle
    /\ ret = FALSE
    /\ InitAux

NextDefToKind ==
    /\ call = Idle
    /\ \E name \in BaseKindNames : CallDefToKind(name)

SpecDefToKind == InitDefToKind /\ [][NextDefToKind]_vars

----------------------------------------------------------------------------
(* The closure walks as processes.  findSuperTypes and findSubTypes call   *)
(* themselves for every def of the list they loop over; an activation is a *)
(* record [list, key]: the list it loops over and the index the loop is    *)
(* at.  findSuperTypesFromDefs loops over the found defs in the same way.  *)
(* `ret` is the Set the walk fills.  At most MaxStack activations are      *)
(* followed.                                                               *)

\* subTypes[name]: the defs, in the order of the defs table, that list name
\* in their `is`, once for every time they list it.
RECURSIVE SubTypesFrom(_, _, _, _)
SubTypesFrom(names, name, i, subs) ==
    IF i > Len(names) THEN subs
    ELSE LET def == byName(names[i])
             is == Get(def, <<"is">>)
             IsName(superName) == superName = name
             times == IF is.kind = "list" THEN Len(SelectSeq(is.val, IsName)) ELSE 0
         IN SubTypesFrom(names, name, i + 1, subs \o [k \in 1..times |-> def])

\* subTypesOf(name)
subTypesOf(name) == SubTypesFrom(defs, name, 1, << >>)

\* A pass that does not call again for a def the Set already holds.
walkPassGuarded(member, f, superTypes) ==
    IF f.key > Len(f.list) THEN [kind |-> "return", add |-> NoDef, list |-> << >>]
    ELSE IF Includes(superTypes, f.list[f.key])
    THEN [kind |-> "next", add |-> f.list[f.key], list |-> << >>]
    ELSE [kind |-> "call", add |-> f.list[f.key],
          list |-> IF member = "allSubTypesOf"
                   THEN subTypesOf(defName(f.list[f.key]))
                   ELSE superTypesOf(defName(f.list[f.key]))]

\* One pass of the loop `for (const dict of defs)`: the dict is added to the
\* Set and the walk is called for its name; past the end of the list the
\* activation returns.
walkPass(member, f, superTypes) ==
    IF f.key > Len(f.list) THEN [kind |-> "return", add |-> NoDef, list |-> << >>]
    ELSE [kind |-> "call", add |-> f.list[f.key],
          list |-> IF member = "allSubTypesOf"
                   THEN subTypesOf(defName(f.list[f.key]))
                   ELSE superTypesOf(defName(f.list[f.key]))]

MaxStack == 8

StartWalk(member, arg, superTypes, list, walks) ==
    /\ call' = [op |-> "walk", args |-> <<member, arg>>]
    /\ ret' = superTypes
    /\ frames' = IF walks THEN <<[list |-> list, key |-> 1]>> ELSE << >>
    /\ UNCHANGED <<grid, queried, memo, defaultNamespace, heap, log>>

\* allSuperTypesOf(name): a new Set, then findSuperTypes(name, superTypes)
StartAllSuperTypesOf(name) ==
    StartWalk("allSuperTypesOf", name, << >>, superTypesOf(name), TRUE)

\* allSubTypesOf(name): a new Set, then findSubTypes(name, subTypes)
StartAllSubTypesOf(name) ==
    StartWalk("allSubTypesOf", name, << >>, subTypesOf(name), TRUE)

\* inheritance(name): for a def, the Set with the def, then findSuperTypes
StartInheritance(name) ==
    StartWalk("inheritance", name,
              IF has(name) THEN <<byName(name)>> ELSE << >>,
              superTypesOf(name), has(name))

\* reflect(subject): findSuperTypesFromDefs over the defs found
StartReflect(subject) ==
    LET found == findDefs(subject)
    IN StartWalk("reflect", subject, << >>,
                 findConjuncts(found.markers, found.foundDefs), TRUE)

StepWalk ==
    /\ call.op = "walk"
    /\ frames # << >>
    /\ LET n == Len(frames)
           o == walkPass(call.args[1], frames[n], ret)
       IN /\ o.kind = "call" => n < MaxStack
          /\ ret' = IF o.kind = "call" THEN SetAdd(ret, o.add) ELSE ret
          /\ frames' =
                CASE o.kind = "return" ->
                        IF n = 1 THEN << >>
                        ELSE [SubSeq(frames, 1, n - 1) EXCEPT ![n - 1].key = @ + 1]
                  [] o.kind = "next" -> [frames EXCEPT ![n].key = @ + 1]
                  [] o.kind = "call" -> Append(frames, [list |-> o.list, key |-> 1])
    /\ UNCHANGED <<grid, call, queried, memo, defaultNamespace, heap, log>>

\* Tables over a, b, c and d with diamonds (a under b and c, both under d),
\* self loops and longer cycles.
WalkRows ==
    << {<<MkDef(<<"marker">>, << >>)>>},
       {<<MkDef(<<"a">>, is)>> :
            is \in {<< <<"b">> >>, << <<"b">>, <<"c">> >>, << <<"a">> >>}},
       {<<MkDef(<<"b">>, is)>> :
            is \in {<< <<"d">> >>, << <<"c">>, <<"d">> >>, << <<"a">> >>}},
       {<<MkDef(<<"c">>, is)>> :
            is \in {<< <<"d">> >>, << <<"b">> >>, << Missing >>}},
       {<<MkDef(<<"d">>, is)>> : is \in {<< <<"marker">> >>, << >>}} >>

WalkGrids == GridsOf(WalkRows)

WalkNames == {<<"a">>, <<"c">>, <<"d">>, Missing}

WalkSubjects == {<<Tag("a")>>, <<Tag("d"), Tag("c")>>}

InitWalk ==
    /\ grid \in WalkGrids
    /\ call = Idle
    /\ ret = << >>
    /\ InitAux

NextWalk ==
    \/ /\ call = Idle
       /\ \/ \E name \in WalkNames : StartAllSuperTypesOf(name)
          \/ \E name \in WalkNames : StartAllSubTypesOf(name)
          \/ \E name \in WalkNames : StartInheritance(name)
          \/ \E subject \in WalkSubjects : StartReflect(subject)
    \/ StepWalk

SpecWalk == InitWalk /\ [][NextWalk]_vars

----------------------------------------------------------------------------
(* Containment refs.                                                       *)

\* findSubTypes(name, subTypes): the depth-first walk downwards
RECURSIVE findSubTypes(_, _)
RECURSIVE FindSubTypesLoop(_, _, _)
FindSubTypesLoop(subs, i, subTypes) ==
    IF i > Len(subs) THEN subTypes
    ELSE LET added == findSubTypes(defName(subs[i]), SetAdd(subTypes, subs[i]))
         IN FindSubTypesLoop(subs, i + 1, added)

findSubTypes(name, subTypes) == FindSubTypesLoop(subTypesOf(name), 1, subTypes)

allSubTypesOf(name) == findSubTypes(name, << >>)

HasContainedBy(def) == Has(def, <<"containedBy">>)

getContainmentRefs == SelectSeq(allSubTypesOf(<<"ref">>), HasContainedBy)

\* String(value) of a symbol: its name; no def is named by another value.
NameOf(value) == IF value.kind = "symbol" THEN value.val[1] ELSE << >>

\* A search that does not leave out the deprecated defs.
findContainmentRefWithDeprecated(name) ==
    LET refs == getContainmentRefs
        found == {i \in DOMAIN refs :
                    fits(name, NameOf(Get(refs[i], <<"containedBy">>)))}
    IN IF found = {} THEN NoDef
       ELSE refs[CHOOSE i \in found : \A j \in found : i <= j]

\* findContainmentRef(name): Array.find over getContainmentRefs()
findContainmentRef(name) ==
    LET refs == getContainmentRefs
        found == {i \in DOMAIN refs :
                    /\ ~Has(refs[i], <<"deprecated">>)
                    /\ fits(name, NameOf(Get(refs[i], <<"containedBy">>)))}
    IN IF found = {} THEN NoDef
       ELSE refs[CHOOSE i \in found : \A j \in found : i <= j]

CallFindContainmentRef(name) ==
    /\ call' = [op |-> "findContainmentRef", args |-> <<name>>]
    /\ ret' = findContainmentRef(name)
    /\ UNCHANGED <<grid, aux>>

ContainedBy(name) == <<[k |-> <<"containedBy">>, v |-> Sym(name)]>>

\* equip and site with ahu under equip; ref with id, equipRef (deprecated or
\* not), its subtype ahuRef, oldSiteRef and siteRef.
ContainmentRows ==
    << {<<MkDef(<<"marker">>, << >>)>>},
       {<<MkDef(<<"equip">>, << <<"marker">> >>)>>},
       {<<MkDef(<<"site">>, << <<"marker">> >>)>>},
       {<<MkDef(<<"ahu">>, << <<"equip">> >>)>>, << >>},
       {<<MkDef(<<"ref">>, << >>)>>},
       {<<MkDef(<<"id">>, << <<"ref">> >>)>>},
       {<<MkDefWith(<<"equipRef">>, << <<"ref">> >>, ContainedBy(<<"equip">>) \o d)>> :
            d \in Optional("deprecated")},
       {<<MkDefWith(<<"ahuRef">>, is, ContainedBy(to))>> :
            is \in {<< <<"equipRef">> >>, << <<"marker">> >>},
            to \in {<<"ahu">>, <<"equip">>}},
       {<<MkDefWith(<<"oldSiteRef">>, << <<"ref">> >>, ContainedBy(to) \o d)>> :
            to \in {<<"site">>, Missing}, d \in Optional("deprecated")},
       {<<MkDefWith(<<"siteRef">>, << <<"ref">> >>, ContainedBy(<<"site">>))>>} >>

ContainmentGrids == GridsOf(ContainmentRows)

ContainmentNames ==
    {<<"ahu">>, <<"equip">>, <<"site">>, <<"marker">>, <<"ref">>, Missing}

InitContainment ==
    /\ grid \in ContainmentGrids
    /\ call = Idle
    /\ ret = FALSE
    /\ InitAux

NextContainment == \E name \in ContainmentNames : CallFindContainmentRef(name)

SpecContainment == InitContainment /\ [][NextContainment]_vars

----------------------------------------------------------------------------
(* Children prototypes.  A `children` value is a list of dicts (null       *)
(* entries allowed) or a string, held as its lines: a line is blank, a     *)
(* comment, or the text of one dict.                                       *)

Dict(entries) == [kind |-> "dict", val |-> entries]

Line(text, entries) == [text |-> text, dict |-> entries]

\* parseMultiLineStringToDicts(val): blank and `//` lines are dropped, every
\* other line is read as one dict.
parseMultiLineStringToDicts(val) ==
    LET IsDictLine(line) == line.text \notin {"", "//"}
        lines == SelectSeq(val.val, IsDictLine)
    IN [i \in DOMAIN lines |-> lines[i].dict]

\* The inner loop of findFlattenedChildren over parent.keys.
RECURSIVE FlattenedKeysLoop(_, _, _, _)
FlattenedKeysLoop(name, parent, j, dict) ==
    IF j > Len(parent) THEN dict
    ELSE LET key == parent[j].k
         IN FlattenedKeysLoop(name, parent, j + 1,
                IF name # Null /\ fits(key, NameOf(name))
                THEN set(dict, key, Get(parent, key))
                ELSE dict)

RECURSIVE FlattenedLoop(_, _, _, _)
FlattenedLoop(names, i, parent, dict) ==
    IF i > Len(names) THEN dict
    ELSE FlattenedLoop(names, i + 1, parent,
                       FlattenedKeysLoop(names[i], parent, 1, dict))

\* findFlattenedChildren(def, parent)
findFlattenedChildren(def, parent) ==
    LET names == Get(def, <<"childrenFlatten">>)
    IN IF names.kind = "list" THEN FlattenedLoop(names.val, 1, parent, << >>)
       ELSE << >>

\* The loop of HDict.merge over the keys of one dict.
RECURSIVE MergeKeysLoop(_, _, _)
MergeKeysLoop(acc, cur, j) ==
    IF j > Len(cur) THEN acc
    ELSE LET val == Get(cur, cur[j].k)
         IN MergeKeysLoop(IF val # Undefined THEN set(acc, cur[j].k, val) ELSE acc,
                          cur, j + 1)

\* HDict.merge(...dicts)
RECURSIVE MergeLoop(_, _, _)
MergeLoop(dicts, i, acc) ==
    IF i > Len(dicts) THEN acc
    ELSE MergeLoop(dicts, i + 1, MergeKeysLoop(acc, dicts[i], 1))

merge(dicts) == MergeLoop(dicts, 1, << >>)

\* Children merged under the flattened tags.
protosForDefFlattenedLast(parent, name) ==
    LET def == byName(name)
        children == Get(def, <<"children">>)
    IN IF def # NoDef /\ children \notin {Undefined, Null}
       THEN LET IsDict(dict) == dict # Null
                protos == IF children.kind = "str"
                          THEN parseMultiLineStringToDicts(children)
                          ELSE [i \in DOMAIN SelectSeq(children.val, IsDict) |->
                                    SelectSeq(children.val, IsDict)[i].val]
                flattened == findFlattenedChildren(def, parent)
            IN [i \in DOMAIN protos |-> merge(<<protos[i], flattened>>)]
       ELSE << >>

\* protosForDef(parent, name)
protosForDef(parent, name) ==
    LET def == byName(name)
        children == Get(def, <<"children">>)
    IN IF def # NoDef /\ children \notin {Undefined, Null}
       THEN LET IsDict(dict) == dict # Null
                protos == IF children.kind = "str"
                          THEN parseMultiLineStringToDicts(children)
                          ELSE [i \in DOMAIN SelectSeq(children.val, IsDict) |->
                                    SelectSeq(children.val, IsDict)[i].val]
                flattened == findFlattenedChildren(def, parent)
            IN [i \in DOMAIN protos |-> merge(<<flattened, protos[i]>>)]
       ELSE << >>

\* HDict.equals: the same keys, whatever their order, with equal values
equals(dict, value) ==
    /\ {dict[i].k : i \in DOMAIN dict} = {value[i].k : i \in DOMAIN value}
    /\ \A i \in DOMAIN dict : Get(value, dict[i].k) = Get(dict, dict[i].k)

\* The reducer of protos: children not yet among the dicts are pushed.
RECURSIVE AddChildren(_, _, _)
AddChildren(children, j, dicts) ==
    IF j > Len(children) THEN dicts
    ELSE AddChildren(children, j + 1,
            IF \E d \in DOMAIN dicts : equals(dicts[d], children[j])
            THEN dicts
            ELSE Append(dicts, children[j]))

RECURSIVE ProtosLoop(_, _, _)
ProtosLoop(parent, i, dicts) ==
    IF i > Len(parent) THEN dicts
    ELSE ProtosLoop(parent, i + 1,
                    AddChildren(protosForDef(parent, parent[i].k), 1, dicts))

\* protos(parent)
protos(parent) == ProtosLoop(parent, 1, << >>)

CallProtos(parent) ==
    /\ call' = [op |-> "protos", args |-> <<parent>>]
    /\ ret' = protos(parent)
    /\ UNCHANGED <<grid, aux>>

Children(value) == <<[k |-> <<"children">>, v |-> value]>>

ChildrenFlatten(names) ==
    << [k |-> <<"childrenFlatten">>, v |-> [kind |-> "list", val |-> names]] >>

Point == <<Tag("point")>>

\* A declared child with a water tag of its own.
WaterPoint == <<Tag("point"), [k |-> <<"water">>, v |-> StrVal]>>

\* equip declares children (a list with a null entry, or a string with a
\* blank and a comment line) and may flatten fluid and hot tags; ahu, below
\* equip, may declare children or only childrenFlatten; water is a fluid.
ProtosRows ==
    << {<<MkDef(<<"marker">>, << >>)>>},
       {<<MkDef(<<"fluid">>, << <<"marker">> >>)>>},
       {<<MkDef(<<"water">>, << <<"fluid">> >>)>>},
       {<<MkDef(<<"hot">>, << <<"marker">> >>)>>},
       {<<MkDefWith(<<"equip">>, << <<"marker">> >>, Children(c) \o f)>> :
            c \in {[kind |-> "list", val |-> <<Dict(WaterPoint), Null, Dict(Point)>>],
                   [kind |-> "list", val |-> <<Dict(Point), Dict(Point)>>],
                   [kind |-> "str",
                    val |-> <<Line("", << >>), Line("point", Point),
                              Line("//", << >>), Line("point water", WaterPoint)>>]},
            f \in {<< >>, ChildrenFlatten(<< Sym(<<"fluid">>) >>),
                   ChildrenFlatten(<< Null, Sym(<<"hot">>), Sym(<<"fluid">>) >>),
                   ChildrenFlatten(<< Sym(Missing) >>)}},
       {<<MkDefWith(<<"ahu">>, << <<"equip">> >>, c)>> :
            c \in {<< >>, Children([kind |-> "list", val |-> <<Dict(Point)>>]),
                   ChildrenFlatten(<< Sym(<<"hot">>) >>),
                   Children([kind |-> "list", val |-> <<Dict(Point)>>])
                        \o ChildrenFlatten(<< Sym(<<"hot">>) >>)}} >>

ProtosGrids == GridsOf(ProtosRows)

ProtosParents ==
    {<<Tag("equip")>>,
     <<Tag("equip"), Tag("water")>>,
     <<[k |-> <<"water">>, v |-> NumVal], Tag("hot"), Tag("equip")>>,
     <<Tag("ahu"), Tag("hot"), Tag("equip")>>,
     <<Tag("equip"), Tag("water"), Tag("ahu"), Tag("nope")>>,
     <<Tag("water"), Tag("hot")>>,
     << >>}

InitProtos ==
    /\ grid \in ProtosGrids
    /\ call = Idle
    /\ ret = FALSE
    /\ InitAux

NextProtos == \E parent \in ProtosParents : CallProtos(parent)

SpecProtos == InitProtos /\ [][NextProtos]_vars

----------------------------------------------------------------------------
(* implementation on its own: phase and the feature key lib:ph may be      *)
(* mandatory, elec lies under one of them and may be mandatory itself,     *)
(* meter lies under phase or elec, dis is a tag on meter that may be       *)
(* compulsory, and elec-meter may be a def.                                *)

CallImplementation(name) ==
    /\ call' = [op |-> "implementation", args |-> <<name>>]
    /\ ret' = implementation(name)
    /\ UNCHANGED <<grid, aux>>

ImplementationRows ==
    << {<<MkDef(<<"marker">>, << >>)>>},
       {<<MkDef(<<"association">>, << >>)>>},
       {<<MkDef(<<"tagOn">>, << <<"association">> >>)>>},
       {<<MkDefWith(<<"tags">>, << <<"association">> >>,
                    <<[k |-> <<"reciprocalOf">>, v |-> Sym(<<"tagOn">>)],
                      Tag("computedFromReciprocal")>>)>>},
       {<<MkDef(<<"computedFromReciprocal">>, << <<"marker">> >>)>>},
       {<<MkDefWith(<<"phase">>, << <<"marker">> >>, extra)>> :
            extra \in Optional("mandatory")},
       {<<MkDefWith(LibPh, << <<"marker">> >>, extra)>> :
            extra \in Optional("mandatory")},
       {<<MkDefWith(<<"elec">>, is, extra)>> :
            is \in {<< <<"phase">> >>, << LibPh >>, << <<"marker">> >>},
            extra \in Optional("mandatory")},
       {<<MkDef(<<"meter">>, is)>> :
            is \in {<< <<"phase">> >>, << <<"elec">> >>}},
       {<<MkDefWith(<<"dis">>, << <<"marker">> >>, TagOn(<< <<"meter">> >>) \o extra)>> :
            extra \in Optional("compulsory")},
       {<< >>, <<MkDef(ElecMeter, << <<"marker">> >>)>>} >>

ImplementationGrids == GridsOf(ImplementationRows)

ImplementationNames ==
    {<<"meter">>, <<"elec">>, ElecMeter, LibPh, Missing, <<"elec", "-", "nope">>}

InitImplementation ==
    /\ grid \in ImplementationGrids
    /\ call = Idle
    /\ ret = FALSE
    /\ InitAux

NextImplementation == \E name \in ImplementationNames : CallImplementation(name)

SpecImplementation == InitImplementation /\ [][NextImplementation]_vars

----------------------------------------------------------------------------
(* The Reflection object: reflect(subject) gives it, fits and type are     *)
(* asked of it.  site and equip are entities, plant may be an equip, and   *)
(* hot-plant may be a def under plant or under equip.                      *)

CallReflectionFits(base) ==
    /\ call.op = "reflect"
    /\ call' = [op |-> "Reflection.fits", args |-> <<ret, base>>]
    /\ ret' = ReflectionFits(ret, base)
    /\ UNCHANGED <<grid, aux>>

CallReflectionType ==
    /\ call.op = "reflect"
    /\ call' = [op |-> "Reflection.type", args |-> <<ret>>]
    /\ ret' = ReflectionType(ret)
    /\ UNCHANGED <<grid, aux>>

HotPlant == <<"hot", "-", "plant">>

ReflectionRows ==
    << {<<MkDef(<<"marker">>, << >>)>>},
       {<< >>, <<MkDef(<<"entity">>, << >>)>>},
       {<< >>, <<MkDef(<<"dict">>, << >>)>>},
       {<<MkDef(<<"site">>, << <<"entity">> >>)>>},
       {<<MkDef(<<"equip">>, << <<"entity">> >>)>>},
       {<<MkDef(<<"hot">>, << <<"marker">> >>)>>},
       {<<MkDef(<<"plant">>, is)>> : is \in {<< <<"equip">> >>, << <<"marker">> >>}},
       {<< >>, <<MkDef(HotPlant, << <<"plant">> >>)>>,
        <<MkDef(HotPlant, << <<"equip">> >>)>>} >>

ReflectionGrids == GridsOf(ReflectionRows)

ReflectionEntries ==
    {[k |-> <<n>>, v |-> Marker] : n \in {"site", "equip", "hot", "plant", "nope"}}

ReflectionSubjects == DictsOver(ReflectionEntries, MaxKeys)

ReflectionBases == {<<"equip">>, <<"entity">>, HotPlant, <<"hot">>, Missing}

InitReflection ==
    /\ grid \in ReflectionGrids
    /\ call = Idle
    /\ ret = FALSE
    /\ InitAux

NextReflection ==
    \/ /\ call = Idle
       /\ \E subject \in ReflectionSubjects : CallReflect(subject)
    \/ \E base \in ReflectionBases : CallReflectionFits(base)
    \/ CallReflectionType

SpecReflection == InitReflection /\ [][NextReflection]_vars

----------------------------------------------------------------------------
(* hasRelationship over reciprocal relationships: containedBy is the       *)
(* reciprocal of contains; childRef and partRef carry contains, siteRef    *)
(* carries containedBy.  The subject is record a with these refs, to a or  *)
(* b, in every key order.                                                   *)

ReciprocalRows ==
    << {<<MkDef(<<"marker">>, << >>)>>},
       {<<MkDef(<<"relationship">>, << >>)>>},
       {<<MkDef(<<"space">>, << <<"marker">> >>)>>},
       {<<MkDef(<<"site">>, << <<"marker">> >>)>>},
       {<<MkDef(<<"contains">>, << <<"relationship">> >>)>>},
       {<<MkDefWith(<<"containedBy">>, << <<"relationship">> >>,
                    extra \o ReciprocalOf(<<"contains">>))>> :
            extra \in Optional("transitive")},
       {<<MkDefWith(<<"childRef">>, << >>,
                    <<[k |-> <<"contains">>, v |-> Sym(<<"space">>)]>>)>>},
       {<<MkDefWith(<<"partRef">>, << >>,
                    <<[k |-> <<"contains">>, v |-> Sym(to)]>>)>> :
            to \in {<<"space">>, <<"site">>}},
       {<<MkDefWith(<<"siteRef">>, << >>,
                    <<[k |-> <<"containedBy">>, v |-> Sym(<<"site">>)]>>)>>} >>

ReciprocalGrids == GridsOf(ReciprocalRows)

ReciprocalEntries ==
    {[k |-> <<"childRef">>, v |-> Ref(<<"a">>)],
     [k |-> <<"childRef">>, v |-> Ref(<<"b">>)],
     [k |-> <<"partRef">>, v |-> Ref(<<"b">>)],
     [k |-> <<"siteRef">>, v |-> Ref(<<"a">>)],
     [k |-> <<"siteRef">>, v |-> Ref(<<"b">>)]}

ReciprocalSubjects ==
    {<<[k |-> <<"id">>, v |-> Ref(<<"a">>)]>> \o d :
        d \in DictsOver(ReciprocalEntries, MaxKeys)}

\* No callback, or the lookup that finds b with a siteRef to c.
ReciprocalResolves ==
    {[given |-> FALSE, at |-> [id \in RefIds |-> NoDef]],
     [given |-> TRUE, at |-> [id \in RefIds |->
        IF id = <<"b">>
        THEN << [k |-> <<"id">>, v |-> Ref(<<"b">>)],
                [k |-> <<"siteRef">>, v |-> Ref(<<"c">>)] >>
        ELSE NoDef]]}

InitReciprocal ==
    /\ grid \in ReciprocalGrids
    /\ call = Idle
    /\ ret = FALSE
    /\ InitAux

NextReciprocal ==
    \/ /\ call = Idle
       /\ \E subject \in ReciprocalSubjects, resolve \in ReciprocalResolves,
             relTerm \in {<< >>, <<"space">>, <<"site">>},
             ref \in {Undefined, Ref(<<"a">>), Ref(<<"b">>), Ref(<<"c">>)} :
                CallHasRelationship(subject, <<"containedBy">>, relTerm, ref, resolve)
    \/ StepHasRelationship

SpecReciprocal == InitReciprocal /\ [][NextReciprocal]_vars

----------------------------------------------------------------------------
(* Names the table does not hold: validate, isValid and hasRelationship    *)
(* asked with names that are no defs, and with relationships that do not   *)
(* inherit from relationship.                                              *)

UnknownRows ==
    << {<<MkDef(<<"marker">>, << >>)>>},
       {<< >>, <<MkDef(<<"relationship">>, << >>)>>},
       {<<MkDef(<<"space">>, << <<"marker">> >>)>>},
       {<<MkDefWith(<<"equip">>, << <<"marker">> >>, extra)>> :
            extra \in Optional("mandatory")},
       {<<MkDef(<<"ahu">>, << <<"equip">> >>)>>},
       {<<MkDefWith(<<"containedBy">>, is, <<Tag("transitive")>>)>> :
            is \in {<< <<"relationship">> >>, << <<"marker">> >>, << >>}},
       {<<MkDefWith(<<"spaceRef">>, << >>,
                    <<[k |-> <<"containedBy">>, v |-> Sym(<<"space">>)]>>)>>} >>

UnknownGrids == GridsOf(UnknownRows)

UnknownNames == {<<"ahu">>, <<"equip">>, Missing, <<"nope">>}

\* Dicts, one of them with the unknown name as a key, and values that are
\* no dicts.
UnknownDicts ==
    {Dict(d) : d \in {<< >>, <<Tag("equip")>>, <<Tag("ahu")>>,
                      <<Tag("ahu"), Tag("equip")>>,
                      <<Tag("nope")>>, <<Tag("nope"), Tag("ahu")>>,
                      <<[k |-> <<"ahu">>, v |-> StrVal]>>}}
    \cup {Marker, Null, Undefined}

UnknownRelNames == {<<"containedBy">>, <<"space">>, Missing, <<"nope">>}

InitUnknown ==
    /\ grid \in UnknownGrids
    /\ call = Idle
    /\ ret = FALSE
    /\ InitAux

NextUnknown ==
    \/ /\ call = Idle
       /\ \/ \E name \in UnknownNames, dict \in UnknownDicts : CallValidate(name, dict)
          \/ \E name \in UnknownNames, dict \in UnknownDicts : CallIsValid(name, dict)
          \/ \E relName \in UnknownRelNames, to \in {<<"a">>, <<"b">>},
                ref \in {Undefined, Ref(<<"b">>)} :
                CallHasRelationship(Record(<<"a">>, to), relName, << >>, ref,
                                    [given |-> FALSE, at |-> [id \in RefIds |-> NoDef]])
    \/ StepHasRelationship

SpecUnknown == InitUnknown /\ [][NextUnknown]_vars

----------------------------------------------------------------------------
(* Def tables and arguments for the strict lookup: meter and elec-meter,   *)
(* and elec, which a table may lack or hold in two rows.  byAllNames takes *)
(* at most MaxArgs arguments, each a name or an array of at most MaxArray  *)
(* names; Missing and Nope name no def.                                    *)

MaxArgs == 1

MaxArray == 2

Nope == <<"nope">>

LookupRows ==
    << {<<MkDef(<<"marker">>, << >>)>>},
       {<< >>, <<MkDef(<<"elec">>, << >>)>>, <<MkDef(<<"elec">>, << <<"marker">> >>)>>},
       {<<MkDef(<<"meter">>, << <<"marker">> >>)>>},
       {<<MkDef(ElecMeter, << <<"meter">> >>)>>},
       {<< >>, <<MkDef(<<"elec">>, << <<"marker">> >>)>>} >>

LookupGrids == GridsOf(LookupRows)

LookupNames == {<<"elec">>, <<"meter">>, Missing, Nope}

LookupArgs ==
    {OneName(n) : n \in LookupNames}
    \cup {ArrayOf(l) : l \in ListsOver(LookupNames, MaxArray)}

ConjunctNames ==
    LookupNames \cup {ElecMeter, <<"meter", "-", "elec">>, <<"meter", "-", "nope">>,
                      <<"nosuch", "-", "nope">>}

InitLookup ==
    /\ grid \in LookupGrids
    /\ call = Idle
    /\ ret = FALSE
    /\ InitAux

NextLookup ==
    /\ call = Idle
    /\ \/ \E names \in ListsOver(LookupArgs, MaxArgs) : CallByAllNames(names)
       \/ \E name \in ConjunctNames : CallConjunctDefs(name)

SpecLookup == InitLookup /\ [][NextLookup]_vars

----------------------------------------------------------------------------
(* The `is` graph of the table, as a relation on def names, and its        *)
(* closure computed as a least fixpoint on sets.                           *)

IsDefName(name) == \E i \in DOMAIN grid : Get(grid[i], <<"def">>) = Sym(name)

\* The last row defining the name.
RowOf(name) ==
    LET rows == {i \in DOMAIN grid : Get(grid[i], <<"def">>) = Sym(name)}
    IN grid[CHOOSE i \in rows : \A j \in rows : j <= i]

AllDefNames == {n \in {defName(grid[i]) : i \in DOMAIN grid} : n # << >>}

\* The direct supertypes of the def n: its `is` entries that resolve to defs
Supers(n) ==
    LET is == Get(RowOf(n), <<"is">>)
    IN IF is.kind = "list" THEN Range(is.val) \cap AllDefNames ELSE {}

\* m is a direct supertype of n
IsEdge(n, m) == IsDefName(n) /\ m \in Supers(n)

\* The defs of S and everything reachable from them upwards.
RECURSIVE UpClosure(_)
UpClosure(S) ==
    LET T == S \cup UNION {Supers(n) : n \in S}
    IN IF T = S THEN S ELSE UpClosure(T)

\* The defs of S and everything that reaches them.
RECURSIVE DownClosure(_)
DownClosure(S) ==
    LET T == S \cup {n \in AllDefNames : Supers(n) \cap S # {}}
    IN IF T = S THEN S ELSE DownClosure(T)

\* The defs reachable from n by one or more `is` edges.
Ancestors(n) == IF IsDefName(n) THEN UpClosure(Supers(n)) ELSE {}

\* n itself, when it is a def, and its ancestors.
SelfAndAncestors(n) == IF IsDefName(n) THEN {n} \cup Ancestors(n) ELSE {}

----------------------------------------------------------------------------
(* Claims on inheritance and fits.                                         *)

\* C1: inheritance(n) is empty when n is not a def name; otherwise it holds
\* exactly n's own def and every def reachable from n by one or more
\* resolvable `is` edges, each once.
C1_InheritanceIsClosure ==
    call.op = "inheritance" =>
        LET n == call.args[1]
        IN /\ ~IsDefName(n) => ret = << >>
           /\ IsDefName(n) =>
                /\ Includes(ret, RowOf(n))
                /\ NoDuplicates(ret)
                /\ Range(ret) = {RowOf(m) : m \in {n} \cup Ancestors(n)}

\* C1 witness: a diamond (entity under val and choice, both under marker)
\* whose closure also crosses an `is` entry naming a missing def.
C1_Witness ==
    /\ call.op = "inheritance"
    /\ Len(ret) = 4
    /\ IsEdge(<<"entity">>, <<"val">>) /\ IsEdge(<<"entity">>, <<"choice">>)
    /\ IsEdge(<<"val">>, <<"marker">>) /\ IsEdge(<<"choice">>, <<"marker">>)
    /\ Missing \in Range(Get(RowOf(<<"val">>), <<"is">>).val)

\* C2: fits(name, base) is true exactly when base names a def that is name's
\* own def or one of its ancestors (false when either is no def name), and
\* fitsMarker/fitsVal/fitsChoice/fitsEntity are fits against the fixed base.
C2_FitsIsMembership ==
    LET Member(name, base) == IsDefName(base) /\ base \in SelfAndAncestors(name)
    IN /\ call.op = "fits" => ret = Member(call.args[1], call.args[2])
       /\ call.op = "fitsMarker" => ret = Member(call.args[1], <<"marker">>)
       /\ call.op = "fitsVal" => ret = Member(call.args[1], <<"val">>)
       /\ call.op = "fitsChoice" => ret = Member(call.args[1], <<"choice">>)
       /\ call.op = "fitsEntity" => ret = Member(call.args[1], <<"entity">>)

\* C2 witness: a fits that holds through two `is` edges.
C2_Witness ==
    /\ call.op = "fits"
    /\ ret = TRUE
    /\ call.args[1] # call.args[2]
    /\ ~IsEdge(call.args[1], call.args[2])

\* C3: fits is transitive.
C3_FitsTransitive ==
    (call.op = "fits" /\ ret = TRUE) =>
        \A c \in QueryNames :
            fits(call.args[2], c) => fits(call.args[1], c)

\* C3 witness: a -> b -> c over three distinct defs, where a also lists a
\* missing def and reaches c along a second path (a diamond).
C3_Witness ==
    /\ call.op = "fits"
    /\ ret = TRUE
    /\ call.args = << <<"entity">>, <<"val">> >>
    /\ fits(<<"val">>, <<"marker">>)
    /\ IsEdge(<<"entity">>, <<"choice">>) /\ IsEdge(<<"choice">>, <<"marker">>)
    /\ Missing \in Range(Get(RowOf(<<"val">>), <<"is">>).val)

----------------------------------------------------------------------------
(* Claims on reflection.  The reflected set is stated on def names, from   *)
(* the subject's keys and the `is` relation, without the walks above.      *)

\* The components of a conjunct name: its maximal runs free of "-".
Components(c) ==
    {SubSeq(c, p[1], p[2]) : p \in
        {q \in (DOMAIN c) \X (DOMAIN c) :
            /\ q[1] <= q[2]
            /\ \A k \in q[1]..q[2] : c[k] # "-"
            /\ (q[1] = 1 \/ c[q[1] - 1] = "-")
            /\ (q[2] = Len(c) \/ c[q[2] + 1] = "-")}}

\* The keys of the subject that name a def and hold a marker.
MarkerKeys(subject) ==
    {subject[i].k : i \in {j \in DOMAIN subject :
        IsDefName(subject[j].k) /\ subject[j].v.kind = "marker"}}

\* The conjunct defs of the table all of whose components are marker keys.
MatchedConjuncts(subject) ==
    {c \in AllDefNames : "-" \in Range(c) /\ Components(c) \subseteq MarkerKeys(subject)}

\* The names of the defs the subject reflects to.
ReflectedNames(subject) ==
    UpClosure({subject[i].k : i \in {j \in DOMAIN subject : IsDefName(subject[j].k)}}
                \cup MatchedConjuncts(subject))

\* The reflected defs that have entity among themselves and their ancestors.
EntityCandidates(subject) ==
    IF IsDefName(<<"entity">>)
    THEN ReflectedNames(subject) \cap DownClosure({<<"entity">>})
    ELSE {}

\* d is a candidate that is in the inheritance of no other candidate.
MostDerived(cands, d) == d \in cands /\ d \notin UpClosure(cands \ {d})

\* C4: reflect(subject) holds the def of every key that names a def, every
\* matched conjunct and every def reachable from those over `is`; nothing
\* else, and no def twice.
C4_ReflectIsClosed ==
    call.op = "reflect" =>
        /\ NoDuplicates(ret.defs)
        /\ Range(ret.defs) = {RowOf(n) : n \in ReflectedNames(call.args[1])}
        /\ \A i \in DOMAIN ret.defs : \A m \in AllDefNames :
                IsEdge(defName(ret.defs[i]), m) => Includes(ret.defs, RowOf(m))

\* C4 witness: a matched conjunct that is no key of the subject, and a
\* supertype (entity) reached over two `is` edges from the key meter.
C4_Witness ==
    /\ call.op = "reflect"
    /\ IsDefName(AcElec)
    /\ Includes(ret.defs, RowOf(AcElec))
    /\ ~Has(call.args[1], AcElec)
    /\ IsDefName(<<"entity">>)
    /\ Includes(ret.defs, RowOf(<<"entity">>))
    /\ ~Has(call.args[1], <<"equip">>)
    /\ Len(ret.defs) > Len(call.args[1]) + 1

\* C5: the conjunct stage of reflect adds a conjunct def of the table exactly
\* when each of its components is a key of the subject that names a def and
\* holds a marker; a conjunct so matched is in the reflected set.
C5_ConjunctMatch ==
    call.op = "reflect" =>
        LET subject == call.args[1]
            stage == findConjuncts(findDefs(subject).markers, << >>)
        IN \A c \in {n \in AllDefNames : "-" \in Range(n)} :
            /\ Includes(stage, RowOf(c)) <=>
                    \A t \in Components(c) :
                        /\ Has(subject, t)
                        /\ IsDefName(t)
                        /\ Get(subject, t).kind = "marker"
            /\ Includes(stage, RowOf(c)) => Includes(ret.defs, RowOf(c))

\* C5 witness: the three markers ac, elec and meter reflect ac-elec-meter.
C5_Witness ==
    /\ call.op = "reflect"
    /\ IsDefName(AcElecMeter)
    /\ Len(call.args[1]) = 3
    /\ Includes(findConjuncts(findDefs(call.args[1]).markers, << >>),
                RowOf(AcElecMeter))
    /\ Includes(ret.defs, RowOf(AcElecMeter))

\* C6: when some reflected def has entity in its inheritance, the type is
\* one of those candidates and is in no other candidate's inheritance.
C6_MostSpecificType ==
    call.op = "defOfDict" =>
        LET cands == EntityCandidates(call.args[1])
        IN cands # {} =>
            /\ defName(ret) \in cands
            /\ ret = RowOf(defName(ret))
            /\ \A e \in cands \ {defName(ret)} :
                    defName(ret) \notin SelfAndAncestors(e)

\* C6 witness: equip < entity, ahu < equip, and a dict tagged equip first
\* and ahu second has type ahu.
C6_Witness ==
    /\ call.op = "defOfDict"
    /\ call.args[1] = << [k |-> <<"equip">>, v |-> Marker],
                         [k |-> <<"ahu">>, v |-> Marker] >>
    /\ IsEdge(<<"equip">>, <<"entity">>)
    /\ IsEdge(<<"ahu">>, <<"equip">>)
    /\ defName(ret) = <<"ahu">>

\* C7 as stated: with several candidates, the type is the candidate whose
\* own inheritance closure contains no other candidate.
C7_Original ==
    call.op = "defOfDict" =>
        LET cands == EntityCandidates(call.args[1])
        IN Cardinality(cands) > 1 =>
            /\ defName(ret) \in cands
            /\ \A e \in cands \ {defName(ret)} :
                    e \notin SelfAndAncestors(defName(ret))

\* C7 amended: with several candidates, the type is the first candidate, in
\* reflection order, that no other candidate's inheritance closure contains.
C7_Amended ==
    call.op = "defOfDict" =>
        LET cands == EntityCandidates(call.args[1])
            order == reflect(call.args[1]).defs
        IN Cardinality(cands) > 1 =>
            /\ MostDerived(cands, defName(ret))
            /\ \A i, j \in DOMAIN order :
                    (order[j] = ret /\ i < j) => ~MostDerived(cands, defName(order[i]))

\* C7 witness: two most-derived candidates, ahu and meter, neither in the
\* other's inheritance; the one reflected first is the type.
C7_Witness ==
    /\ call.op = "defOfDict"
    /\ Keys(call.args[1]) = << <<"meter">>, <<"ahu">> >>
    /\ Cardinality(EntityCandidates(call.args[1])) = 4
    /\ defName(ret) = <<"meter">>

\* C8: when no reflected def has entity in its inheritance, or there is no
\* entity def, the type is the def named dict (what byName('dict') gives);
\* with marker, entity, elec, ac and ac-elec defined, {ac, elec} fits
\* ac-elec and has type dict.
C8_FallBackToDict ==
    call.op = "defOfDict" =>
        /\ EntityCandidates(call.args[1]) = {} =>
                ret = IF IsDefName(<<"dict">>) THEN RowOf(<<"dict">>) ELSE NoDef
        /\ ( /\ call.args[1] = << [k |-> <<"ac">>, v |-> Marker],
                                 [k |-> <<"elec">>, v |-> Marker] >>
             /\ {<<"marker">>, <<"entity">>, <<"elec">>, <<"ac">>, AcElec}
                    \subseteq AllDefNames )
            => /\ ReflectionFits(reflect(call.args[1]), AcElec)
               /\ ret = IF IsDefName(<<"dict">>) THEN RowOf(<<"dict">>) ELSE NoDef

\* C8 witness: the scenario, in a table that has an entity and a dict def.
C8_Witness ==
    /\ call.op = "defOfDict"
    /\ call.args[1] = << [k |-> <<"ac">>, v |-> Marker],
                         [k |-> <<"elec">>, v |-> Marker] >>
    /\ {<<"marker">>, <<"entity">>, <<"dict">>, <<"elec">>, <<"ac">>, AcElec}
            \subseteq AllDefNames
    /\ ReflectionFits(reflect(call.args[1]), AcElec)
    /\ ret = RowOf(<<"dict">>)

----------------------------------------------------------------------------
(* Claims on validation.  The checks are laid out as one list and the      *)
(* outcome of each is stated from the `is` relation, without the loops.    *)

\* The least element of a non-empty set of positions.
Least(S) == CHOOSE i \in S : \A j \in S : i <= j

\* The kind of a def: the first base kind, in KindOrder, among the def and
\* its ancestors.
KindOf(name) ==
    LET line == SelfAndAncestors(name)
        hits == {i \in DOMAIN KindOrder : <<KindOrder[i]>> \in line}
    IN IF hits = {} THEN "undefined" ELSE KindOrder[Least(hits)]

\* The outcome of the kind check of one tag that the dict holds.
KindOutcome(tag, entries) ==
    LET kind == KindOf(tag)
    IN IF kind = "undefined" THEN Error("cannotFindKind", tag)
       ELSE IF Get(entries, tag).kind \notin {"null", kind}
            THEN [lex |-> "kindMismatch", name |-> tag, kind |-> kind,
                  valueKind |-> Get(entries, tag).kind]
       ELSE Ok

\* The outcome of one tag's checks: presence, then kind.
TagOutcome(check, entries) ==
    IF ~Has(entries, check.tag) THEN Error(check.lex, check.tag)
    ELSE KindOutcome(check.tag, entries)

\* The names of the mandatory tags of a def, in the order they are checked.
MandatoryNames(name) ==
    LET mandatoryTags == MandatoryTags(name)
    IN [i \in DOMAIN mandatoryTags |-> defName(mandatoryTags[i])]

\* The tag checks of validate: the mandatory tags, then the compulsory ones.
TagChecks(name) ==
    LET mandatory == MandatoryNames(name)
        compulsory == CompulsoryTags(name)
    IN [i \in DOMAIN mandatory |->
            [tag |-> mandatory[i], lex |-> "cannotFindMandatory"]]
       \o [i \in DOMAIN compulsory |->
            [tag |-> defName(compulsory[i]), lex |-> "cannotFindCompulsory"]]

\* The first failing check in the order dict-kind, fits, tag checks.
FirstFailure(name, dict) ==
    IF dict.kind # "dict" THEN Error("invalidDict", << >>)
    ELSE IF name \notin ReflectedNames(dict.val) THEN Error("doesNotFitDict", name)
    ELSE LET checks == TagChecks(name)
             failing == {i \in DOMAIN checks : TagOutcome(checks[i], dict.val) # Ok}
         IN IF failing = {} THEN Ok
            ELSE TagOutcome(checks[Least(failing)], dict.val)

\* C9: validate reports exactly the first failing check in the order
\* dict-kind, fits, mandatory tags (presence then kind, tag by tag),
\* compulsory tags (presence then kind, tag by tag), and returns normally
\* only if every check passes; isValid is true exactly then.
C9_FirstFailingCheck ==
    /\ call.op = "validate" => ret = FirstFailure(call.args[1], call.args[2])
    /\ call.op = "isValid" => ret = (FirstFailure(call.args[1], call.args[2]) = Ok)

\* C9 witness: a mandatory tag of the wrong kind is reported although a
\* later mandatory tag and a compulsory tag are both absent.
C9_Witness ==
    /\ call.op = "validate"
    /\ ret.lex = "kindMismatch"
    /\ ret.name = <<"ahu">>
    /\ LET checks == TagChecks(call.args[1])
       IN \E i, j \in DOMAIN checks :
            /\ checks[i].lex = "cannotFindMandatory"
            /\ checks[j].lex = "cannotFindCompulsory"
            /\ ~Has(call.args[2].val, checks[i].tag)
            /\ ~Has(call.args[2].val, checks[j].tag)

\* The mandatory defs among d and its ancestors whose name the dict lacks.
AbsentMandatory(d, entries) ==
    {n \in SelfAndAncestors(d) :
        HasMarker(RowOf(n), <<"mandatory">>) /\ ~Has(entries, n)}

\* The call validates a dict that fits the named def.
ValidatesFittingDict ==
    /\ call.op \in {"validate", "isValid"}
    /\ call.args[2].kind = "dict"
    /\ call.args[1] \in ReflectedNames(call.args[2].val)

\* C10 as stated: when a mandatory def among d and its supertypes is no key
\* of a dict that fits d, validate fails with cannotFindMandatory naming
\* such a tag, and isValid is false.
C10_Original ==
    ValidatesFittingDict =>
        LET absent == AbsentMandatory(call.args[1], call.args[2].val)
        IN absent # {} =>
            IF call.op = "validate"
            THEN ret.lex = "cannotFindMandatory" /\ ret.name \in absent
            ELSE ret = FALSE

\* C10 amended: validate then fails and isValid is false; the failure is
\* cannotFindMandatory naming the first absent mandatory tag in the order
\* d, allSuperTypesOf(d), unless a mandatory tag earlier in that order is
\* present and fails its kind check, which is then the failure.
C10_Amended ==
    ValidatesFittingDict =>
        LET entries == call.args[2].val
            names == MandatoryNames(call.args[1])
            absent == {i \in DOMAIN names : ~Has(entries, names[i])}
            earlier == {i \in 1..(Least(absent) - 1) :
                            KindOutcome(names[i], entries) # Ok}
        IN /\ {names[i] : i \in absent} = AbsentMandatory(call.args[1], entries)
           /\ absent # {} =>
              IF call.op = "isValid" THEN ret = FALSE
              ELSE IF earlier = {}
                   THEN ret = Error("cannotFindMandatory", names[Least(absent)])
              ELSE /\ ret.lex \in {"cannotFindKind", "kindMismatch"}
                   /\ ret = KindOutcome(names[Least(earlier)], entries)

\* C10 witness: ahu, equip and entity are mandatory, the dict holds ahu
\* alone, and the failure names equip, the first of the two absent tags.
C10_Witness ==
    /\ call.op = "validate"
    /\ call.args[1] = <<"ahu">>
    /\ call.args[2].kind = "dict"
    /\ Keys(call.args[2].val) = << <<"ahu">> >>
    /\ AbsentMandatory(<<"ahu">>, call.args[2].val) = {<<"equip">>, <<"entity">>}
    /\ HasMarker(RowOf(<<"ahu">>), <<"mandatory">>)
    /\ ret = Error("cannotFindMandatory", <<"equip">>)

----------------------------------------------------------------------------
(* Claims on newDict.                                                      *)

\* The names of a newDict call some component of which names no def.
Unresolvable(names) ==
    {d \in Range(names) : \E c \in Components(d) : ~IsDefName(c)}

C12_Original ==
    /\ (call.op = "newDict" /\ Len(call.args[1]) = 1 /\ IsDefName(call.args[1][1]))
            => ~ret.thrown
    /\ (call.op = "validate" /\ IsDefName(call.args[1])
            /\ newDict(<<call.args[1]>>) = Returned(call.args[2]))
            => ret = Ok

----------------------------------------------------------------------------
(* Claims on the kind checks.                                              *)

\* The kindMismatch error for a number tag that holds a str.
NumberMismatch(t) ==
    [lex |-> "kindMismatch", name |-> t, kind |-> "number", valueKind |-> "str"]

\* The names of the compulsory tags of a def.
CompulsoryNames(name) ==
    LET compulsory == CompulsoryTags(name)
    IN {defName(compulsory[i]) : i \in DOMAIN compulsory}

\* The keys of the dict that name a number def and hold a str.
StrUnderNumber(entries) ==
    {i \in DOMAIN entries :
        /\ IsDefName(entries[i].k)
        /\ KindOf(entries[i].k) = "number"
        /\ entries[i].v.kind = "str"}

\* The checks validateAll makes for the entry at one position pass.
EntryPasses(dict, i) ==
    LET name == dict.val[i].k
    IN IsDefName(name) =>
        FirstFailure(name, dict) = Ok /\ KindOutcome(name, dict.val) = Ok

\* C13 as stated: validate(t, dict), for a tag t of kind number that holds
\* a str in the dict, fails with kindMismatch naming number and str.
C13_Original ==
    (call.op = "validate" /\ call.args[2].kind = "dict") =>
        LET t == call.args[1]
        IN (IsDefName(t) /\ KindOf(t) = "number"
                /\ Get(call.args[2].val, t).kind = "str")
            => ret = NumberMismatch(t)

\* C13 amended: validate(t, dict) fails so when t is mandatory, and
\* reports no kindMismatch for t when t is neither mandatory nor one of
\* its own compulsory tags; validateAll(dict) fails whenever some tag of
\* kind number holds a str, with the kindMismatch of the first such tag
\* when the checks of every entry before it pass and validate passes for
\* the tag itself.
C13_Amended ==
    /\ (call.op = "validate" /\ call.args[2].kind = "dict") =>
            LET t == call.args[1]
            IN (IsDefName(t) /\ KindOf(t) = "number"
                    /\ Get(call.args[2].val, t).kind = "str")
                => /\ HasMarker(RowOf(t), <<"mandatory">>) => ret = NumberMismatch(t)
                   /\ (~HasMarker(RowOf(t), <<"mandatory">>)
                            /\ t \notin CompulsoryNames(t))
                        => ret # NumberMismatch(t)
    /\ (call.op = "validateAll" /\ call.args[1].kind = "dict") =>
            LET dict == call.args[1]
                wrong == StrUnderNumber(dict.val)
            IN wrong # {} =>
                /\ ret # Ok
                /\ ( /\ \A i \in 1..(Least(wrong) - 1) : EntryPasses(dict, i)
                     /\ FirstFailure(dict.val[Least(wrong)].k, dict) = Ok )
                    => ret = NumberMismatch(dict.val[Least(wrong)].k)

\* C13 witness: area is a plain number tag, validate('area', {area: str})
\* returns normally.
C13_Witness ==
    /\ call.op = "validate"
    /\ call.args[1] = <<"area">>
    /\ call.args[2] = [kind |-> "dict", val |-> <<[k |-> <<"area">>, v |-> StrVal]>>]
    /\ ~HasMarker(RowOf(<<"area">>), <<"mandatory">>)
    /\ ret = Ok

\* C14 as stated: validate and validateAll raise cannotFindKind only for
\* a tag that is mandatory or compulsory for a name being validated, and
\* validateAll passes a dict whose known tags all pass validate and whose
\* tags with a derivable kind hold values of that kind.
C14_Original ==
    /\ (call.op = "validate" /\ ret.lex = "cannotFindKind") =>
            ret.name \in Range(MandatoryNames(call.args[1]))
                            \cup CompulsoryNames(call.args[1])
    /\ (call.op = "validateAll" /\ call.args[1].kind = "dict") =>
            LET dict == call.args[1]
                known == {i \in DOMAIN dict.val : IsDefName(dict.val[i].k)}
            IN /\ ret.lex = "cannotFindKind" =>
                    \E i \in known :
                        ret.name \in Range(MandatoryNames(dict.val[i].k))
                                        \cup CompulsoryNames(dict.val[i].k)
               /\ (\A i \in known :
                        /\ FirstFailure(dict.val[i].k, dict) = Ok
                        /\ KindOf(dict.val[i].k) # "undefined"
                                => KindOutcome(dict.val[i].k, dict.val) = Ok)
                    => ret = Ok

----------------------------------------------------------------------------
(* Claims on associations.                                                 *)

\* The defs a list of names resolves to, in list order, the names that
\* resolve to nothing left out.
RECURSIVE Resolved(_)
Resolved(names) ==
    IF names = << >> THEN << >>
    ELSE (IF IsDefName(Head(names)) THEN <<RowOf(Head(names))>> ELSE << >>)
            \o Resolved(Tail(names))

\* The association def carries the tag that marks it as computed.
IsComputed(a) ==
    Has(RowOf(a), IF IsDefName(<<"computedFromReciprocal">>)
                  THEN <<"computedFromReciprocal">> ELSE <<"computed">>)

\* C15 as stated: for a def a whose inheritance includes the def
\* association, directly or not, and which is not computed,
\* associations(parent, a) is the defs resolved from the tag a on the
\* parent's def, the entries that do not resolve left out.
C15_Original ==
    call.op = "associations" =>
        LET parent == call.args[1]
            a == call.args[2]
        IN (IsDefName(a) /\ <<"association">> \in SelfAndAncestors(a) /\ ~IsComputed(a))
            => ret = IF IsDefName(parent) /\ Get(RowOf(parent), a).kind = "list"
                     THEN Resolved(Get(RowOf(parent), a).val)
                     ELSE << >>

----------------------------------------------------------------------------
(* Claims on the strict lookup.                                            *)

\* The names of the arguments, arrays opened up, in argument order.
RECURSIVE Flattened(_)
Flattened(args) ==
    IF args = << >> THEN << >>
    ELSE Flattened(SubSeq(args, 1, Len(args) - 1)) \o args[Len(args)].names

\* All names or nothing: the rows of the names in order, or the error
\* naming the first name that is no def.
AllOrNothing(names, result) ==
    LET missing == {i \in DOMAIN names : ~IsDefName(names[i])}
    IN IF missing = {}
       THEN /\ ~result.thrown
            /\ Len(result.val) = Len(names)
            /\ \A i \in DOMAIN names : result.val[i] = RowOf(names[i])
       ELSE /\ result.thrown
            /\ result.name = names[Least(missing)]
            /\ result.val = << >>

\* C18: byAllNames returns the defs of all the flattened names, in order,
\* or raises the error naming the first name that is no def, and never a
\* partial result; conjunctDefs does so for the components of the name,
\* and conjunctDefs('elec-meter') is [elec, meter].
C18_AllOrNothing ==
    /\ call.op = "byAllNames" => AllOrNothing(Flattened(call.args), ret)
    /\ call.op = "conjunctDefs" =>
            /\ \/ /\ ~ret.thrown
                  /\ Components(call.args[1]) \subseteq AllDefNames
                  /\ Range(ret.val) = {RowOf(c) : c \in Components(call.args[1])}
               \/ /\ ret.thrown
                  /\ ret.val = << >>
                  /\ ret.name \in Components(call.args[1]) \ AllDefNames
            /\ call.args[1] = ElecMeter =>
                    AllOrNothing(<< <<"elec">>, <<"meter">> >>, ret)
            /\ call.args[1] = <<"nosuch", "-", "nope">> => ret.name = Missing

\* C18 witness: a nested list whose second array holds a name that is no
\* def after one that is, with another such name behind it.
C18_Witness ==
    /\ call.op = "byAllNames"
    /\ call.args = <<ArrayOf(<< <<"meter">>, Missing >>)>>
    /\ ret = Thrown(Missing)

----------------------------------------------------------------------------
(* Claims on hasRelationship.                                              *)

HasReturned == call.op = "hasRelationship" /\ frames = << >>

\* The records the query can come to: the subject, and whatever resolve
\* answers for the spaceRef of a record it can come to.
RECURSIVE Followed(_, _)
Followed(resolve, recs) ==
    LET more == {resolve.at[Get(r, <<"spaceRef">>).val[1]] : r \in recs} \ {NoDef}
    IN IF more \subseteq recs THEN recs ELSE Followed(resolve, recs \cup more)

\* The ref values on the records of a query, ids aside.
RefValues(a) ==
    LET recs == {a.subject} \cup ({a.resolve.at[id] : id \in RefIds} \ {NoDef})
    IN {r[i].v.val[1] : <<r, i>> \in
            {<<r, i>> \in recs \X (1..3) :
                i \in DOMAIN r /\ r[i].k # <<"id">> /\ r[i].v.kind = "ref"}}

\* What a query is to answer: some record it can come to is contained by
\* the target (or, read the other way round, the subject is the target and
\* has a child).
Related(a) ==
    LET rel == RowOf(a.relName)
        valid == <<"relationship">> \in SelfAndAncestors(a.relName)
        termOk == a.relTerm = << >> \/ a.relTerm \in SelfAndAncestors(<<"space">>)
        recs == IF Has(rel, <<"transitive">>) /\ a.resolve.given
                THEN Followed(a.resolve, {a.subject})
                ELSE {a.subject}
    IN /\ valid
       /\ termOk
       /\ \/ a.ref = Undefined
          \/ \E r \in recs : Get(r, <<"spaceRef">>) = a.ref
          \/ /\ Has(rel, <<"reciprocalOf">>)
             /\ Has(a.subject, <<"childRef">>)
             /\ a.ref = Get(a.subject, <<"id">>)

\* a -> b -> c -> a, followed by id over a transitive containedBy.
IsCycle(a) ==
    /\ Has(byName(a.relName), <<"transitive">>)
    /\ a.relTerm = << >>
    /\ a.resolve.given
    /\ \A id \in RecordIds : a.resolve.at[id] # NoDef
            /\ Get(a.resolve.at[id], <<"id">>) = Ref(id)
    /\ Get(a.subject, <<"spaceRef">>) = Ref(<<"b">>)
    /\ Get(a.resolve.at[<<"b">>], <<"spaceRef">>) = Ref(<<"c">>)
    /\ Get(a.resolve.at[<<"c">>], <<"spaceRef">>) = Ref(<<"a">>)

HasRelationshipSafe ==
    call.op = "hasRelationship" =>
        /\ Len(frames) <= Cardinality(RefValues(call.args)) + 1
        /\ HasReturned => (ret <=> Related(call.args))
        /\ HasReturned /\ IsCycle(call.args) /\ isRelationship(call.args.relName) =>
                /\ call.args.ref = Ref(<<"c">>) => ret
                /\ call.args.ref = Ref(<<"d">>) => ~ret

\* The work a call has left: the refs not yet in queried, each worth a whole
\* activation, and the keys the activations have not passed yet.  A subject
\* has at most three keys, so an activation counts for at most four.
RECURSIVE KeysLeft(_)
KeysLeft(stack) ==
    IF stack = << >> THEN 0
    ELSE (Len(stack[1].subject) + 2 - stack[1].key) + KeysLeft(Tail(stack))

WorkLeft == Cardinality(RefIds \ queried) * 5 + KeysLeft(frames)

\* C17: every hasRelationship call returns, whatever the refs and whatever
\* resolve answers: a call that has not returned can take its next step
\* (the activations followed stay below MaxDepth, the one thing that could
\* hold a step back), and each step leaves less work than there was; it
\* never has more activations than distinct ref values plus one; on
\* a -> b -> c -> a it returns true for the ref of c and false for a ref no
\* record points to.
C17_Terminates ==
    /\ [](HasRelationshipSafe /\ WorkLeft >= 0 /\ Len(frames) < MaxDepth)
    /\ [][StepHasRelationship => WorkLeft' < WorkLeft]_vars

\* C17 witness: the cycle has been walked all the way round for a ref no
\* record points to, and the call has returned false.
C17_Witness ==
    /\ HasReturned
    /\ IsCycle(call.args)
    /\ call.args.ref = Ref(<<"d">>)
    /\ queried = RecordIds
    /\ ~ret

----------------------------------------------------------------------------
(* Claims on the memoized members.                                         *)

\* C19: in the history of reads, a read of a memoized member that has been
\* read before (same member, same argument) returns the object and value
\* of the first read and computes nothing, whatever was added to the grid
\* in between.
C19_ComputedOnce ==
    \A i, j \in DOMAIN log :
        i < j /\ log[i].key = log[j].key =>
            /\ log[j].val = log[i].val
            /\ log[j].obj = log[i].obj
            /\ ~log[j].computed

\* C19 witness: defs was read, a row was then added to the grid that the
\* cached table does not have, and defs was read again.
C19_Witness ==
    /\ call.op = "defs"
    /\ Cardinality({i \in DOMAIN log : log[i].key = Key("defs", << >>)}) >= 2
    /\ ret # DefsFrom(grid, 1, << >>)

----------------------------------------------------------------------------
(* Claims on the default namespace.                                        *)

Greatest(S) == CHOOSE i \in S : \A j \in S : j <= i

\* What the i-th event of the history, a get, is to return: the namespace
\* of the last set before it; with no set before it, the namespace of the
\* first get; and if it is the first get itself, a namespace over an empty
\* grid that the host did not construct.
GetAnswers(i) ==
    LET sets == {j \in 1..(i - 1) : log[j].op = "set"}
        gets == {j \in 1..(i - 1) : log[j].op = "get"}
    IN IF sets # {} THEN log[i].ns = log[Greatest(sets)].ns
       ELSE IF gets # {} THEN log[i].ns = log[Least(gets)].ns
       ELSE /\ log[i].ns \notin DOMAIN HostGrids
            /\ log[i].ns \in DOMAIN heap
            /\ heap[log[i].ns] = << >>

\* C20: every get of the default namespace returns the namespace of the
\* most recent set, however many sets there were; with no set so far, the
\* first get makes a namespace over an empty grid and every later get
\* returns that same instance.  HDict.reflect() reflects over that
\* namespace.
C20_LastWriterWins ==
    /\ \A i \in DOMAIN log : log[i].op = "get" => GetAnswers(i)
    /\ call.op = "get defaultNamespace" => ret = log[Len(log)].ns
    /\ call.op \in {"HDict.reflect", "reflect"} =>
            /\ log[Len(log)].op = "get"
            /\ grid = heap[log[Len(log)].ns]

\* C20 witness: a get before any set, then two sets of different
\* namespaces, then a get that returns the second.
C20_Witness ==
    /\ Len(log) = 4
    /\ log[1].op = "get" /\ log[2].op = "set" /\ log[3].op = "set"
    /\ log[2].ns # log[3].ns
    /\ call.op = "get defaultNamespace"
    /\ ret = log[3].ns

----------------------------------------------------------------------------
(* Claims on defToKind.                                                    *)

\* C22: defToKind(name) is the first kind of KindOrder whose def is the def
\* of name or one of its ancestors, and undefined when name is no def or
\* no such kind def is in the table.
C22_FirstBaseKind ==
    call.op = "defToKind" =>
        LET name == call.args[1]
            hits == {i \in DOMAIN KindOrder :
                        /\ IsDefName(<<KindOrder[i]>>)
                        /\ <<KindOrder[i]>> \in SelfAndAncestors(name)}
        IN IF IsDefName(name) /\ hits # {}
           THEN ret = KindOrder[Least(hits)]
           ELSE ret = "undefined"

\* C22 witness: b reaches ref directly and, through a, str and number, with
\* str listed ahead of number; number, the earliest in the fixed order, is
\* the kind.
C22_Witness ==
    /\ call.op = "defToKind"
    /\ call.args[1] = <<"b">>
    /\ Get(byName(<<"b">>), <<"is">>).val = << <<"ref">>, <<"a">> >>
    /\ Get(byName(<<"a">>), <<"is">>).val = << <<"str">>, <<"number">> >>
    /\ IsDefName(<<"number">>) /\ IsDefName(<<"str">>)
    /\ ret = "number"

----------------------------------------------------------------------------
(* Claims on the closure walks.                                            *)

\* The names a walk goes to from n in one step: the defs n lists in its
\* `is`, or, downwards, the defs that list n.
Towards(member, n) ==
    IF member = "allSubTypesOf"
    THEN {m \in AllDefNames : n \in Range(Get(RowOf(m), <<"is">>).val)}
    ELSE IF IsDefName(n) THEN Supers(n) ELSE {}

RECURSIVE Reach(_, _)
Reach(member, S) ==
    LET T == S \cup UNION {Towards(member, n) : n \in S}
    IN IF T = S THEN S ELSE Reach(member, T)

\* The names the walk of the call starts from.
WalkStarts ==
    IF call.args[1] = "reflect"
    THEN LET found == findDefs(call.args[2])
         IN {defName(d) : d \in Range(findConjuncts(found.markers, found.foundDefs))}
    ELSE {call.args[2]}

\* Some def the walk comes to lies on a cycle of the `is` graph.
ReachesCycle ==
    \E n \in Reach(call.args[1], WalkStarts) :
        n \in Reach(call.args[1], Towards(call.args[1], n))

WalkReturned == call.op = "walk" /\ frames = << >>

\* What a walk that returns has collected.
WalkResult ==
    LET member == call.args[1]
        arg == call.args[2]
    IN CASE member = "allSuperTypesOf" -> ret = allSuperTypesOf(arg)
         [] member = "inheritance" -> ret = inheritance(arg)
         [] member = "reflect" -> ret = reflect(arg).defs
         [] member = "allSubTypesOf" ->
                /\ NoDuplicates(ret)
                /\ {defName(d) : d \in Range(ret)} =
                        Reach(member, Towards(member, arg))

\* The steps a walk over `list` from index `from` on still takes: one to
\* return and, for every def left, one to call and those of its own walk.
RECURSIVE WalkCost(_, _, _)
WalkCost(member, list, from) ==
    IF from > Len(list) THEN 1
    ELSE LET name == defName(list[from])
             below == IF member = "allSubTypesOf" THEN subTypesOf(name)
                      ELSE superTypesOf(name)
         IN 1 + WalkCost(member, below, 1) + WalkCost(member, list, from + 1)

\* The steps left to a walk with these activations, when none of its defs
\* lies on a cycle.
RECURSIVE WalkLeft(_, _, _)
WalkLeft(member, stack, i) ==
    IF i > Len(stack) THEN 0
    ELSE WalkCost(member, stack[i].list,
                  IF i = Len(stack) THEN stack[i].key ELSE stack[i].key + 1)
         + WalkLeft(member, stack, i + 1)

\* C21: allSuperTypesOf, allSubTypesOf, inheritance and reflect return, with
\* the closure, whenever no def their walk comes to lies on a cycle of the
\* `is` graph (a diamond included): every step leaves one step less to take
\* and none is held back.  When a def they come to lies on a cycle they
\* never return: an activation is always left.
C21_WalksTerminate ==
    /\ [](call.op = "walk" /\ ReachesCycle => frames # << >>)
    /\ [](call.op = "walk" /\ ~ReachesCycle =>
                /\ Len(frames) < MaxStack
                /\ WalkLeft(call.args[1], frames, 1) = 0 <=> WalkReturned
                /\ WalkReturned => WalkResult)
    /\ [][StepWalk /\ ~ReachesCycle =>
            WalkLeft(call.args[1], frames', 1) = WalkLeft(call.args[1], frames, 1) - 1]_vars

\* C21 witness: a walk over a table with a cycle has more activations than
\* the table has defs.
C21_Witness ==
    /\ call.op = "walk"
    /\ ReachesCycle
    /\ Len(frames) > Len(grid) + 1

----------------------------------------------------------------------------
(* Claims on containment refs.                                             *)

\* The containment refs: the defs below ref that carry containedBy.
IsContainmentRef(n) ==
    /\ n \in DownClosure({<<"ref">>}) \ {<<"ref">>}
    /\ Has(RowOf(n), <<"containedBy">>)

TargetOf(def) == NameOf(Get(def, <<"containedBy">>))

\* The result is the first def, in getContainmentRefs order, of those that
\* take part.
FirstOf(TakesPart(_)) ==
    LET refs == getContainmentRefs
        found == {i \in DOMAIN refs : TakesPart(refs[i])}
    IN /\ NoDuplicates(refs)
       /\ {defName(refs[i]) : i \in DOMAIN refs} = {n \in AllDefNames : IsContainmentRef(n)}
       /\ IF found = {} THEN ret = NoDef ELSE ret = refs[Least(found)]

\* C23 as stated: findContainmentRef(name) is the first containment ref, not
\* deprecated, whose containedBy target is name or a subtype of name.
C23_Original ==
    call.op = "findContainmentRef" =>
        LET name == call.args[1]
            TakesPart(def) ==
                /\ ~Has(def, <<"deprecated">>)
                /\ name \in SelfAndAncestors(TargetOf(def))
        IN FirstOf(TakesPart)

\* C23 amended: findContainmentRef(name) is the first def, in
\* getContainmentRefs order, that is a transitive subtype of ref, carries
\* containedBy, is not deprecated, and whose containedBy target name fits:
\* name is the target or a subtype of it; undefined when there is none.
C23_Amended ==
    call.op = "findContainmentRef" =>
        LET name == call.args[1]
            TakesPart(def) ==
                /\ ~Has(def, <<"deprecated">>)
                /\ TargetOf(def) \in SelfAndAncestors(name)
        IN FirstOf(TakesPart)

\* C23 witness: for ahu, with equipRef deprecated and ahuRef below it
\* contained by equip, the answer is ahuRef; equip is no subtype of ahu.
C23_Witness ==
    /\ call.op = "findContainmentRef"
    /\ call.args[1] = <<"ahu">>
    /\ IsDefName(<<"ahu">>)
    /\ Has(RowOf(<<"equipRef">>), <<"deprecated">>)
    /\ TargetOf(RowOf(<<"ahuRef">>)) = <<"equip">>
    /\ <<"ahuRef">> \in DownClosure({<<"ref">>})
    /\ ret = RowOf(<<"ahuRef">>)

----------------------------------------------------------------------------
(* Claims on children prototypes.  Dicts are compared as sets of entries.  *)

\* The children a def declares: the dicts of its list, or of its lines.
Declared(n) ==
    LET children == Get(RowOf(n), <<"children">>)
    IN IF children.kind = "list"
       THEN {c.val : c \in {x \in Range(children.val) : x # Null}}
       ELSE IF children.kind = "str"
       THEN {l.dict : l \in {x \in Range(children.val) : x.text \notin {"", "//"}}}
       ELSE {}

\* The flattening dict of a def for a parent: the parent's tags whose key
\* fits one of the def's childrenFlatten targets.
Flattening(n, parent) ==
    LET names == Get(RowOf(n), <<"childrenFlatten">>)
        targets == IF names.kind = "list"
                   THEN {x.val[1] : x \in {y \in Range(names.val) : y # Null}}
                   ELSE {}
    IN {e \in Range(parent) : SelfAndAncestors(e.k) \cap targets # {}}

\* The flattening dict overlaid with the child's tags.
Overlaid(flattening, child) ==
    Range(child) \cup {e \in flattening : ~Has(child, e.k)}

\* C24: protos(parent) returns, for every key of the parent that names a
\* def with children, every declared child overlaid on the flattening dict
\* (the child's value wins on a key of both), and nothing else; no two of
\* the dicts returned are structurally equal.
C24_Protos ==
    call.op = "protos" =>
        LET parent == call.args[1]
            keys == {parent[i].k : i \in DOMAIN parent} \cap AllDefNames
        IN /\ {Range(ret[i]) : i \in DOMAIN ret} =
                    UNION {{Overlaid(Flattening(n, parent), child) :
                                child \in Declared(n)} : n \in keys}
           /\ \A i, j \in DOMAIN ret : Range(ret[i]) = Range(ret[j]) => i = j
           /\ \A i \in DOMAIN ret : NoDuplicates(Keys(ret[i]))

\* C24 witness: the parent holds water as a number and equip flattens
\* fluid; the child that declares water keeps its own value, the other
\* child takes the parent's, and ahu, with childrenFlatten alone, adds
\* nothing.
C24_Witness ==
    /\ call.op = "protos"
    /\ Get(call.args[1], <<"water">>) = NumVal
    /\ Has(call.args[1], <<"equip">>)
    /\ Len(ret) = 2
    /\ \E i \in DOMAIN ret : Get(ret[i], <<"water">>) = StrVal
    /\ \E i \in DOMAIN ret : Get(ret[i], <<"water">>) = NumVal

----------------------------------------------------------------------------
(* Claims on implementation.                                               *)

\* The components of a name that are no feature keys.
PlainComponents(name) == {c \in Components(name) : ":" \notin Range(c)}

\* What implementation(name) is to hold: the components, the mandatory defs
\* above them, and the compulsory tags of name.
ToImplement(name) ==
    PlainComponents(name)
    \cup {s \in UNION {Ancestors(c) : c \in PlainComponents(name)} :
            HasMarker(RowOf(s), <<"mandatory">>)}
    \cup {defName(t) : t \in {x \in Range(tags(name)) : HasMarker(x, <<"compulsory">>)}}

\* C25 as stated: implementation(name) raises when a component of name is
\* no def; otherwise it lists no def twice and no feature key def, and holds
\* the components that are no feature keys, the mandatory defs of their
\* supertype closures and the compulsory defs of tags(name).
C25_Original ==
    call.op = "implementation" =>
        LET name == call.args[1]
        IN IF \E c \in Components(name) : ~IsDefName(c)
           THEN ret.thrown
           ELSE /\ ~ret.thrown
                /\ NoDuplicates(ret.val)
                /\ \A i \in DOMAIN ret.val : ":" \notin Range(defName(ret.val[i]))
                /\ {defName(ret.val[i]) : i \in DOMAIN ret.val} = ToImplement(name)

----------------------------------------------------------------------------
(* Claims on the Reflection object.                                        *)

\* C26: reflect(subject).fits(base) is true if and only if base names a def
\* and that def is one of reflect(subject).defs.
C26_FitsIsMembership ==
    call.op = "Reflection.fits" =>
        LET reflection == call.args[1]
            base == call.args[2]
        IN ret <=> (IsDefName(base) /\ RowOf(base) \in Range(reflection.defs))

\* C26 witness: equip is no key of the subject, which reflects hot-plant,
\* and the reflection fits equip.
C26_Witness ==
    /\ call.op = "Reflection.fits"
    /\ call.args[2] = <<"equip">>
    /\ Keys(call.args[1].subject) = << <<"hot">>, <<"plant">> >>
    /\ IsDefName(HotPlant)
    /\ Supers(<<"plant">>) = {<<"marker">>}
    /\ ret

\* The candidates of a reflection, by name: its defs that have entity among
\* themselves and their ancestors.
CandidatesOf(reflection) ==
    IF IsDefName(<<"entity">>)
    THEN {defName(reflection.defs[i]) : i \in DOMAIN reflection.defs}
            \cap DownClosure({<<"entity">>})
    ELSE {}

\* The most-derived candidates: those no other candidate has above it.
TiedOf(reflection) ==
    {d \in CandidatesOf(reflection) : MostDerived(CandidatesOf(reflection), d)}

\* The place of the def named n in the reflection.
PlaceOf(reflection, n) ==
    Least({i \in DOMAIN reflection.defs : defName(reflection.defs[i]) = n})

\* The earliest key of the subject the def named n is reached from: the key
\* n itself, or the first of the keys a conjunct is made of.
EarliestKeyOf(subject, n) ==
    Least({i \in DOMAIN subject : subject[i].k \in Components(n)})

\* C27 as stated: with several most-derived candidates the type is the one
\* first in reflection order, which is the one reached from the earliest
\* key of the subject; and with candidates there is always one that no
\* other candidate includes.
C27_Original ==
    call.op = "Reflection.type" =>
        LET reflection == call.args[1]
            tied == TiedOf(reflection)
        IN /\ CandidatesOf(reflection) # {} => (tied # {} /\ defName(ret) \in tied)
           /\ Cardinality(tied) > 1 =>
                /\ defName(ret) \in tied
                /\ \A d \in tied :
                        PlaceOf(reflection, defName(ret)) <= PlaceOf(reflection, d)
                /\ \A d \in tied :
                        EarliestKeyOf(reflection.subject, defName(ret))
                            <= EarliestKeyOf(reflection.subject, d)

\* C27 amended: with several most-derived candidates the type is the one
\* first in reflection order; the most-derived candidates are defs named by
\* a key or matched conjuncts, those named by a key come first, in key
\* order, and the conjuncts after them all, so the type is the one named by
\* the earliest key that names a most-derived candidate when there is such
\* a key.  With candidates there is always one that no other candidate
\* includes.
C27_Amended ==
    call.op = "Reflection.type" =>
        LET reflection == call.args[1]
            subject == reflection.subject
            tied == TiedOf(reflection)
            keyed == {i \in DOMAIN subject : subject[i].k \in tied}
        IN /\ CandidatesOf(reflection) # {} => (tied # {} /\ defName(ret) \in tied)
           /\ Cardinality(tied) > 1 =>
                /\ defName(ret) \in tied
                /\ \A d \in tied :
                        PlaceOf(reflection, defName(ret)) <= PlaceOf(reflection, d)
                /\ \A d \in tied : Has(subject, d) \/ d \in MatchedConjuncts(subject)
                /\ keyed # {} => defName(ret) = subject[Least(keyed)].k

\* C27 witness: hot, plant and site in this order; hot-plant and site are
\* the most-derived candidates and the type is site, the def of the last
\* key.
C27_Witness ==
    /\ call.op = "Reflection.type"
    /\ Keys(call.args[1].subject) = << <<"hot">>, <<"plant">>, <<"site">> >>
    /\ TiedOf(call.args[1]) = {HotPlant, <<"site">>}
    /\ defName(ret) = <<"site">>

----------------------------------------------------------------------------
(* Claims on the queried set of hasRelationship.                           *)

\* C28: within one hasRelationship call the queried set only grows; resolve
\* is called on a ref only after the ref is in the set, and at most once
\* for a ref value over all keys and activations (the refs resolved are the
\* set); it is not called when the relationship lacks transitive, when no
\* ref is given, or on a value that equals the ref target.
C28_QueriedSet ==
    /\ [][StepHasRelationship => queried \subseteq queried']_vars
    /\ [](call.op = "hasRelationship" =>
            /\ \A i, j \in DOMAIN log : log[i].resolve = log[j].resolve => i = j
            /\ {log[i].resolve : i \in DOMAIN log} = queried
            /\ \A i \in DOMAIN log :
                    /\ log[i].resolve \in log[i].queried
                    /\ \A j \in 1..(i - 1) : log[j].queried \subseteq log[i].queried
                    /\ log[i].ref # Ref(log[i].resolve)
            /\ log # << >> =>
                    /\ Has(RowOf(call.args.relName), <<"transitive">>)
                    /\ call.args.ref # Undefined
                    /\ call.args.resolve.given)

\* C28 witness: on the cycle a -> b -> c -> a with a ref no record points
\* to, resolve has been called on b, c and a, once each, in three
\* activations, and the call has returned.
C28_Witness ==
    /\ HasReturned
    /\ IsCycle(call.args)
    /\ [i \in DOMAIN log |-> log[i].resolve] = << <<"b">>, <<"c">>, <<"a">> >>
    /\ queried = RecordIds

----------------------------------------------------------------------------
(* Claims on the reciprocal branch of hasRelationship.                     *)

\* The def row of a subject key, empty when the key names no def.
KeyRow(key) == IF IsDefName(key) THEN RowOf(key) ELSE << >>

\* The name the relationship of the call is the reciprocal of.
ReciprocalName ==
    LET of == Get(RowOf(call.args.relName), <<"reciprocalOf">>)
    IN IF of.kind = "symbol" THEN of.val[1] ELSE << >>

\* The reciprocal branch fires for the j-th key of the subject when the
\* ref target is target: the key's def lacks the relName tag and carries
\* the reciprocalOf tag, the target is the subject's id, and the key's
\* value is a ref.
BranchFires(subject, j, target) ==
    /\ ~Has(KeyRow(subject[j].k), call.args.relName)
    /\ ReciprocalName # << >>
    /\ Has(KeyRow(subject[j].k), ReciprocalName)
    /\ target.kind = "ref"
    /\ target = Get(subject, <<"id">>)
    /\ subject[j].v.kind = "ref"

\* The term of the call is met by the reciprocal tag of the j-th key.
ReciprocalTermMet(subject, j) ==
    LET val == Get(KeyRow(subject[j].k), ReciprocalName)
    IN call.args.relTerm = << >>
        \/ (val.kind = "symbol" /\ call.args.relTerm \in SelfAndAncestors(val.val[1]))

\* The keys of the first activation that lie behind it and for which the
\* branch fired with the ref of the caller.
FiredForCaller ==
    {j \in 1..(frames[1].key - 1) :
        BranchFires(frames[1].subject, j, call.args.ref)}

\* C29 as stated: once the reciprocal branch has fired for a key, the ref
\* target is that key's value for the rest of the call.
C29_Original ==
    (call.op = "hasRelationship" /\ frames # << >> /\ FiredForCaller # {}) =>
        frames[1].ref = frames[1].subject[Least(FiredForCaller)].v

\* What a step does to the ref targets.
ReciprocalStep ==
    LET n == Len(frames)
        f == frames[n]
    IN IF f.key > Len(f.subject)
       THEN \A i \in DOMAIN frames' : frames'[i].ref = frames[i].ref
       ELSE /\ \A i \in 1..(n - 1) : i \in DOMAIN frames' => frames'[i].ref = frames[i].ref
            /\ IF BranchFires(f.subject, f.key, f.ref)
               THEN IF ReciprocalTermMet(f.subject, f.key)
                    THEN frames' = << >> /\ ret'
                    ELSE /\ Len(frames') = n
                         /\ frames'[n].ref = f.subject[f.key].v
                         /\ frames'[n].key = f.key + 1
               ELSE \A i \in DOMAIN frames' : i >= n => frames'[i].ref = f.ref

SiteAfterChild ==
    << [k |-> <<"id">>, v |-> Ref(<<"a">>)], [k |-> <<"childRef">>, v |-> Ref(<<"b">>)],
       [k |-> <<"siteRef">>, v |-> Ref(<<"b">>)] >>

SiteBeforeChild ==
    << [k |-> <<"id">>, v |-> Ref(<<"a">>)], [k |-> <<"siteRef">>, v |-> Ref(<<"b">>)],
       [k |-> <<"childRef">>, v |-> Ref(<<"b">>)] >>

\* C29 amended: when the reciprocal branch fires for a key, the comparison
\* for that key is trivially equal (the call returns true when the term is
\* met) and the ref target becomes that key's value; it stays so for the
\* later keys and the nested calls until the branch fires again for a later
\* key, which takes the value of that key; no other pass changes a ref
\* target.  The result can depend on the key order: asked with the term
\* site for the ref a, {id: a, childRef: b, siteRef: b} gives true and
\* {id: a, siteRef: b, childRef: b} gives false.
C29_Amended ==
    /\ [][StepHasRelationship => ReciprocalStep]_vars
    /\ [](( /\ HasReturned
            /\ call.args.relTerm = <<"site">>
            /\ call.args.ref = Ref(<<"a">>)
            /\ ~call.args.resolve.given ) =>
                /\ call.args.subject = SiteAfterChild => ret
                /\ call.args.subject = SiteBeforeChild => ~ret)

\* C29 witness: childRef, to a itself, fired first and partRef, to b, fired
\* after it; the siteRef to b is then met and the call has returned true.
C29_Witness ==
    /\ HasReturned
    /\ call.args.relTerm = <<"site">>
    /\ call.args.ref = Ref(<<"a">>)
    /\ ~call.args.resolve.given
    /\ call.args.subject =
            << [k |-> <<"id">>, v |-> Ref(<<"a">>)],
               [k |-> <<"childRef">>, v |-> Ref(<<"a">>)],
               [k |-> <<"partRef">>, v |-> Ref(<<"b">>)],
               [k |-> <<"siteRef">>, v |-> Ref(<<"b">>)] >>
    /\ Get(RowOf(<<"partRef">>), <<"contains">>) = Sym(<<"space">>)
    /\ ret

----------------------------------------------------------------------------
(* Claims on names the table does not hold.                                *)

\* C30: validate(name, dict) with a name that is no def fails with
\* doesNotFitDict for every dict, and the def of the name is read only
\* after the name was found to fit; hasRelationship with a relName that is
\* no def, or whose inheritance lacks relationship, returns false at once;
\* isValid answers true or false for every input, and false for a name that
\* is no def.
C30_UnknownNames ==
    /\ (call.op = "validate" /\ call.args[2].kind = "dict") =>
            /\ ~IsDefName(call.args[1]) => ret = Error("doesNotFitDict", call.args[1])
            /\ (ret = Ok \/ ret.lex # "doesNotFitDict") => byName(call.args[1]) # NoDef
    /\ call.op = "isValid" =>
            /\ ret \in BOOLEAN
            /\ ~IsDefName(call.args[1]) => ~ret
    /\ (call.op = "hasRelationship"
            /\ <<"relationship">> \notin SelfAndAncestors(call.args.relName)) =>
            /\ HasReturned
            /\ ret = FALSE
            /\ log = << >>

\* C30 witness: validate of the unknown name nope against a dict that has
\* the key nope has failed with doesNotFitDict.
C30_Witness ==
    /\ call.op = "validate"
    /\ call.args[1] = <<"nope">>
    /\ call.args[2] = Dict(<<Tag("nope"), Tag("ahu")>>)
    /\ ret = Error("doesNotFitDict", <<"nope">>)

====
